---- MODULE Spec2Model ----
(***************************************************************************)
(* A model of espg/gen.py: the grammar-lowering pipeline of                *)
(* generate_parser and the LALR state construction of analyze_states.      *)
(*                                                                         *)
(* Conventions.  Names of terminals and nonterminals are strings, as in    *)
(* the source; InitNt(goal) is the string "^" \o goal; END (Python None)   *)
(* is "$END" and EMPTY is the source's own string "(empty)".  A body       *)
(* element is a record: Sym(n), Optional(e) or LookaheadRule(set, pos).    *)
(* Python lists and the insertion-ordered sets of ordered.py are           *)
(* sequences; list indices stored in data (removals, offsets, production   *)
(* indexes, state ids) keep the source's 0-based values.                   *)
(***************************************************************************)
EXTENDS Integers, Sequences, FiniteSets, TLC

\* ------------------------------------------------------------------------
\* Ordered sets (ordered.py): duplicate-free sequences in insertion order.

ToSet(s) == {s[i] : i \in DOMAIN s}

Has(s, x) == \E i \in DOMAIN s : s[i] = x

OAdd(s, x) == IF Has(s, x) THEN s ELSE Append(s, x)

RECURSIVE OUnion(_, _)
OUnion(s, t) == IF t = <<>> THEN s ELSE OUnion(OAdd(s, Head(t)), Tail(t))

ODiff(s, T) == SelectSeq(s, LAMBDA x : x \notin T)

OInter(s, T) == SelectSeq(s, LAMBDA x : x \in T)

OrderedSet(s) == OUnion(<<>>, s)

\* Python's seq[i:] for a 0-based i.
From(s, i) == SubSeq(s, i + 1, Len(s))

\* Python's seq[:i] for a 0-based i >= 0.
UpTo(s, i) == SubSeq(s, 1, IF i < Len(s) THEN i ELSE Len(s))

\* ------------------------------------------------------------------------
\* Symbols, productions and grammars (grammar.py).

EMPTY == "(empty)"

END == "$END"

Sym(n) == [t |-> "sym", n |-> n]

Optional(e) == [t |-> "opt", inner |-> e]

LookaheadRule(S, pos) == [t |-> "la", set |-> S, positive |-> pos]

NoLookahead == [t |-> "none"]

is_optional(e) == e.t = "opt"

is_lookahead_rule(e) == e.t = "la"

InitNt(goal) == "^" \o goal

\* Reduction expressions.
ExprInt(i) == [e |-> "int", i |-> i]

ExprNone == [e |-> "none"]

Some(x) == [e |-> "some", inner |-> x]

CallMethod(m, args) == [e |-> "call", method |-> m, args |-> args]

ExprAccept == [e |-> "accept"]

Production(nt, body, action) == [nt |-> nt, body |-> body, action |-> action]

Prod(nt, index, rhs, removals, action) ==
    [nt |-> nt, index |-> index, rhs |-> rhs, removals |-> removals, action |-> action]

\* grammar.nonterminals is an insertion-ordered dict: a sequence of entries.
Entry(nt, prods) == [nt |-> nt, prods |-> prods]

NtNames(g) == {g.nonterminals[i].nt : i \in DOMAIN g.nonterminals}

ProdsOf(g, nt) == g.nonterminals[CHOOSE i \in DOMAIN g.nonterminals : g.nonterminals[i].nt = nt].prods

is_nt(g, e) == e.t = "sym" /\ e.n \in NtNames(g)

is_terminal(g, e) == e.t = "sym" /\ e.n \notin NtNames(g)

goals(g) == g.init_nts

InitNtNames(g) == {InitNt(g.init_nts[i]) : i \in DOMAIN g.init_nts}

InitEntries(gl) == [i \in DOMAIN gl |->
    Entry(InitNt(gl[i]), <<Production(InitNt(gl[i]), <<Sym(gl[i])>>, ExprAccept)>>)]

\* Grammar(nonterminals, goals): the given entries, then for each goal the
\* implicit init production InitNt(goal) -> goal with action accept.
Grammar(entries, gl) ==
    [nonterminals |->
        SelectSeq(entries, LAMBDA en : en.nt \notin {InitNt(gl[i]) : i \in DOMAIN gl})
            \o InitEntries(gl),
     init_nts |-> gl]

with_nonterminals(g, entries) == Grammar(entries, goals(g))

lookahead_contains(rule, tok) ==
    \/ rule.t = "none"
    \/ rule.t = "la" /\ (IF rule.positive THEN tok \in rule.set ELSE tok \notin rule.set)

lookahead_intersect(a, b) ==
    IF a.t = "none" THEN b
    ELSE IF b.t = "none" THEN a
    ELSE IF a.positive
         THEN IF b.positive THEN LookaheadRule(a.set \cap b.set, TRUE)
                            ELSE LookaheadRule(a.set \ b.set, TRUE)
         ELSE IF b.positive THEN LookaheadRule(b.set \ a.set, TRUE)
                            ELSE LookaheadRule(a.set \cup b.set, FALSE)

\* ------------------------------------------------------------------------
\* Operations on grammars.

production_is_empty(g, empties, p) ==
    \A i \in DOMAIN p.body :
        \/ is_lookahead_rule(p.body[i])
        \/ is_optional(p.body[i])
        \/ (is_nt(g, p.body[i]) /\ p.body[i].n \in empties)

empty_nt_step(g, empties) ==
    {g.nonterminals[i].nt : i \in
        {j \in DOMAIN g.nonterminals :
            \E k \in DOMAIN g.nonterminals[j].prods :
                production_is_empty(g, empties, g.nonterminals[j].prods[k])}}

RECURSIVE fix_empty_nt(_, _)
fix_empty_nt(g, prev) ==
    LET current == empty_nt_step(g, prev)
    IN IF current = prev THEN current ELSE fix_empty_nt(g, current)

empty_nt_set(g) == fix_empty_nt(g, {})

\* expand_optional_symbols_in_rhs(rhs, start_index): the sequence of
\* [rhs, removals] pairs in the order the generator yields them.
FirstOptionalFrom(rhs, start_index) ==
    LET cands == {i \in start_index .. Len(rhs) - 1 : is_optional(rhs[i + 1])}
    IN IF cands = {} THEN -1 ELSE CHOOSE i \in cands : \A j \in cands : i <= j

\* The pairs with each removal counted from start_index instead of from the
\* start of the whole rhs.
RECURSIVE FlattenPairsRelative(_, _, _, _)
FlattenPairsRelative(rhs, start_index, i, sub) ==
    IF sub = <<>> THEN <<>>
    ELSE LET pre == SubSeq(rhs, start_index + 1, i)
             h == Head(sub)
         IN << [rhs |-> pre \o h.rhs, removals |-> <<i - start_index>> \o h.removals],
               [rhs |-> pre \o <<rhs[i + 1].inner>> \o h.rhs, removals |-> h.removals] >>
            \o FlattenPairsRelative(rhs, start_index, i, Tail(sub))

RECURSIVE FlattenPairs(_, _, _, _)
FlattenPairs(rhs, start_index, i, sub) ==
    IF sub = <<>> THEN <<>>
    ELSE LET pre == SubSeq(rhs, start_index + 1, i)
             h == Head(sub)
         IN << [rhs |-> pre \o h.rhs, removals |-> <<i>> \o h.removals],
               [rhs |-> pre \o <<rhs[i + 1].inner>> \o h.rhs, removals |-> h.removals] >>
            \o FlattenPairs(rhs, start_index, i, Tail(sub))

RECURSIVE expand_optional_symbols_in_rhs(_, _)
expand_optional_symbols_in_rhs(rhs, start_index) ==
    LET i == FirstOptionalFrom(rhs, start_index)
    IN IF i = -1
       THEN << [rhs |-> From(rhs, start_index), removals |-> <<>>] >>
       ELSE FlattenPairs(rhs, start_index, i, expand_optional_symbols_in_rhs(rhs, i + 1))

\* check_cycle_free: the walk over one optional-expanded rhs.  `broke` says
\* the for loop was left by a break (its else branch is skipped).
RECURSIVE cycle_walk(_, _, _, _, _)
cycle_walk(g, empties, rhs, result, all_possibly_empty_so_far) ==
    IF rhs = <<>> THEN [broke |-> FALSE, result |-> result]
    ELSE LET e == Head(rhs)
         IN IF is_terminal(g, e) THEN [broke |-> TRUE, result |-> result]
            ELSE IF is_nt(g, e)
            THEN IF e.n \in empties
                 THEN cycle_walk(g, empties, Tail(rhs),
                                 IF all_possibly_empty_so_far THEN Append(result, e.n) ELSE result,
                                 all_possibly_empty_so_far)
                 ELSE IF ~all_possibly_empty_so_far
                      THEN [broke |-> TRUE, result |-> result]
                      ELSE cycle_walk(g, empties, Tail(rhs), <<e.n>>, FALSE)
            ELSE IF is_optional(e)
            THEN cycle_walk(g, empties, Tail(rhs),
                            IF is_nt(g, e.inner) THEN Append(result, e.inner.n) ELSE result,
                            all_possibly_empty_so_far)
            ELSE cycle_walk(g, empties, Tail(rhs), result, all_possibly_empty_so_far)

\* All (rhs, removals) expansions of all productions of one entry, in order.
RECURSIVE ExpansionsOf(_)
ExpansionsOf(plist) ==
    IF plist = <<>> THEN <<>>
    ELSE expand_optional_symbols_in_rhs(Head(plist).body, 0) \o ExpansionsOf(Tail(plist))

direct_produces(g) ==
    LET empties == empty_nt_set(g)
    IN [orig \in NtNames(g) |->
            UNION { LET w == cycle_walk(g, empties, x.rhs, <<>>, TRUE)
                    IN IF w.broke THEN {} ELSE ToSet(w.result)
                    : x \in ToSet(ExpansionsOf(ProdsOf(g, orig))) }]

produces_step(produces) ==
    [orig \in DOMAIN produces |->
        produces[orig] \cup UNION {produces[a] : a \in produces[orig]}]

RECURSIVE fix_produces(_)
fix_produces(prev) ==
    LET current == produces_step(prev)
    IN IF current = prev THEN current ELSE fix_produces(current)

\* check_cycle_free without the transitive closure: one-production cycles only.
check_cycle_free_direct(g) ==
    IF \E nt \in NtNames(g) : nt \in direct_produces(g)[nt] THEN "Cycle" ELSE "none"

\* The exception check_cycle_free raises, or "none".
check_cycle_free(g) ==
    LET produces == fix_produces(direct_produces(g))
    IN IF \E nt \in NtNames(g) : nt \in produces[nt] THEN "Cycle" ELSE "none"

\* The test on the bodies as written, without expanding their optionals.
HasTrailingLookaheadUnexpanded(plist) ==
    \E k \in DOMAIN plist :
        plist[k].body # <<>> /\ is_lookahead_rule(plist[k].body[Len(plist[k].body)])

HasTrailingLookahead(plist) ==
    \E x \in ToSet(ExpansionsOf(plist)) :
        x.rhs # <<>> /\ is_lookahead_rule(x.rhs[Len(x.rhs)])

\* check_lookahead_rules that returns after its call of check_cycle_free.
check_lookahead_rules_cycle_only(g) == check_cycle_free(g)

\* The exception check_lookahead_rules raises, or "none".
check_lookahead_rules(g) ==
    IF check_cycle_free(g) # "none" THEN check_cycle_free(g)
    ELSE IF \E i \in DOMAIN g.nonterminals : HasTrailingLookahead(g.nonterminals[i].prods)
         THEN "TrailingLookahead"
         ELSE "none"

\* ------------------------------------------------------------------------
\* expand_function_nonterminals.  Apply(nt, args) is both a body element and,
\* once expanded, the name of the specialised nonterminal: the model names it
\* by the string ApplyName(nt, args).  An argument is Var(name) or a value.

Apply(nt, args) == [t |-> "apply", nt |-> nt, args |-> args]

Var(name) == [var |-> TRUE, v |-> name]

Val(v) == [var |-> FALSE, v |-> v]

is_apply(e) == e.t = "apply"

Parameterized(nt, params, body) == [nt |-> nt, prods |-> body, params |-> params]

ConditionalRhs(param, value, rhs) == [param |-> param, value |-> value, rhs |-> rhs]

is_parameterized(en) == "params" \in DOMAIN en

is_conditional(p) == "param" \in DOMAIN p

RECURSIVE ArgsStr(_)
ArgsStr(args) ==
    IF args = <<>> THEN ""
    ELSE args[1][1] \o "=" \o args[1][2] \o (IF Len(args) > 1 THEN "," ELSE "")
         \o ArgsStr(Tail(args))

ApplyName(nt, args) == nt \o "{" \o ArgsStr(args) \o "}"

\* A key of assigned_names: (nt, args), args None when isfn is FALSE.
NameKey(nt, isfn, args) == [nt |-> nt, isfn |-> isfn, args |-> args]

DerivedName(key) == IF key.isfn THEN ApplyName(key.nt, key.args) ELSE key.nt

\* dict(args)[name]
ArgsDict(args, name) ==
    args[CHOOSE i \in DOMAIN args :
            args[i][1] = name /\ \A j \in DOMAIN args : args[j][1] = name => j <= i][2]

evaluate_arg(args, arg) == IF arg.var THEN ArgsDict(args, arg.v) ELSE arg.v

EvalArgs(args, eargs) == [i \in DOMAIN eargs |-> <<eargs[i][1], evaluate_arg(args, eargs[i][2])>>]

RECURSIVE expand_element(_, _, _)
expand_element(g, args, e) ==
    IF is_nt(g, e) THEN e
    ELSE IF is_optional(e) THEN Optional(expand_element(g, args, e.inner))
    ELSE IF is_apply(e) THEN Sym(ApplyName(e.nt, EvalArgs(args, e.args)))
    ELSE e

\* The (nt, args) keys that expand_element hands to get_derived_name.
RECURSIVE ElementRefs(_, _, _)
ElementRefs(g, args, e) ==
    IF is_nt(g, e) THEN <<NameKey(e.n, FALSE, <<>>)>>
    ELSE IF is_optional(e) THEN ElementRefs(g, args, e.inner)
    ELSE IF is_apply(e) THEN <<NameKey(e.nt, TRUE, EvalArgs(args, e.args))>>
    ELSE <<>>

expand_production(g, args, p) ==
    Production(p.nt, [i \in DOMAIN p.body |-> expand_element(g, args, p.body[i])], p.action)

\* expand_productions that keeps the rhs of every ConditionalRhs, whatever
\* the binding of its parameter.
RECURSIVE KeptProductionsUnconditional(_, _)
KeptProductionsUnconditional(args, plist) ==
    IF plist = <<>> THEN <<>>
    ELSE LET p == Head(plist)
         IN (IF is_conditional(p) THEN <<p.rhs>> ELSE <<p>>)
            \o KeptProductionsUnconditional(args, Tail(plist))

\* The productions kept by expand_productions, before their elements are expanded.
RECURSIVE KeptProductions(_, _)
KeptProductions(args, plist) ==
    IF plist = <<>> THEN <<>>
    ELSE LET p == Head(plist)
         IN (IF is_conditional(p)
             THEN (IF ArgsDict(args, p.param) = p.value THEN <<p.rhs>> ELSE <<>>)
             ELSE <<p>>) \o KeptProductions(args, Tail(plist))

RECURSIVE BodyRefs(_, _, _)
BodyRefs(g, args, body) ==
    IF body = <<>> THEN <<>>
    ELSE ElementRefs(g, args, Head(body)) \o BodyRefs(g, args, Tail(body))

RECURSIVE ProductionsRefs(_, _, _)
ProductionsRefs(g, args, plist) ==
    IF plist = <<>> THEN <<>>
    ELSE BodyRefs(g, args, Head(plist).body) \o ProductionsRefs(g, args, Tail(plist))

EntryOf(g, nt) == g.nonterminals[CHOOSE i \in DOMAIN g.nonterminals : g.nonterminals[i].nt = nt]

\* expand(nt, args): the rhs list of one specialisation.
expand(g, key) ==
    LET kept == KeptProductions(key.args, EntryOf(g, key.nt).prods)
    IN [i \in DOMAIN kept |-> expand_production(g, key.args, kept[i])]

ResultIndex(result, name) == CHOOSE i \in DOMAIN result : result[i].name = name

\* get_derived_name, for its effect on (assigned_names, todo, result).
get_derived_name(w, key) ==
    IF key \in w.assigned THEN w
    ELSE LET name == DerivedName(key)
         IN [w EXCEPT !.assigned = @ \cup {key},
                      !.todo = Append(@, key),
                      !.result = IF \E i \in DOMAIN @ : @[i].name = name
                                 THEN [@ EXCEPT ![ResultIndex(@, name)] =
                                          [name |-> name, filled |-> FALSE, prods |-> <<>>]]
                                 ELSE Append(@, [name |-> name, filled |-> FALSE, prods |-> <<>>])]

RECURSIVE DeriveAll(_, _)
DeriveAll(w, keys) ==
    IF keys = <<>> THEN w ELSE DeriveAll(get_derived_name(w, Head(keys)), Tail(keys))

\* The `while todo` loop.
RECURSIVE expand_todo(_, _)
expand_todo(g, w) ==
    IF w.todo = <<>> \/ w.err # "none" THEN w
    ELSE LET key == Head(w.todo)
             idx == ResultIndex(w.result, DerivedName(key))
             w0 == [w EXCEPT !.todo = Tail(@)]
         IN IF w.result[idx].filled THEN expand_todo(g, w0)
            ELSE IF key.isfn /\ Len(key.args) # Len(EntryOf(g, key.nt).params)
            THEN [w0 EXCEPT !.err = "AssertionError"]
            ELSE LET kept == KeptProductions(key.args, EntryOf(g, key.nt).prods)
                     w1 == DeriveAll(w0, ProductionsRefs(g, key.args, kept))
                 IN expand_todo(g, [w1 EXCEPT !.result[idx] =
                        [name |-> DerivedName(key), filled |-> TRUE, prods |-> expand(g, key)]])

\* [err, grammar]: the exception raised (or "none") and the returned grammar.
expand_function_nonterminals(g) ==
    LET gl == goals(g)
        w == expand_todo(g,
                [assigned |-> {NameKey(gl[i], FALSE, <<>>) : i \in DOMAIN gl},
                 todo |-> [i \in DOMAIN gl |-> NameKey(gl[i], FALSE, <<>>)],
                 result |-> [i \in DOMAIN g.nonterminals |->
                                [name |-> g.nonterminals[i].nt, filled |-> FALSE, prods |-> <<>>]],
                 err |-> "none"])
        reachable == SelectSeq(w.result, LAMBDA r : r.filled)
    IN [err |-> w.err,
        grammar |-> with_nonterminals(g, [i \in DOMAIN reachable |->
                                            Entry(reachable[i].name, reachable[i].prods)])]

\* ------------------------------------------------------------------------
\* Lowering.

\* sum(1 for r in removals if r < expr)
RemovedBefore(removals, i) == Cardinality({k \in DOMAIN removals : removals[k] < i})

\* adjust_reduce_expr that forgets to shift an index past the removed slots.
RECURSIVE adjust_reduce_expr_unshifted(_, _, _)
adjust_reduce_expr_unshifted(body, removals, expr) ==
    IF expr.e = "int"
    THEN IF Has(removals, expr.i) THEN ExprNone
         ELSE IF is_optional(body[expr.i + 1]) THEN Some(ExprInt(expr.i)) ELSE ExprInt(expr.i)
    ELSE IF expr.e = "none" THEN ExprNone
    ELSE IF expr.e = "some" THEN Some(adjust_reduce_expr_unshifted(body, removals, expr.inner))
    ELSE IF expr.e = "call"
    THEN CallMethod(expr.method,
                    [i \in DOMAIN expr.args |->
                        adjust_reduce_expr_unshifted(body, removals, expr.args[i])])
    ELSE ExprAccept

RECURSIVE adjust_reduce_expr(_, _, _)
adjust_reduce_expr(body, removals, expr) ==
    IF expr.e = "int"
    THEN IF Has(removals, expr.i) THEN ExprNone
         ELSE IF is_optional(body[expr.i + 1])
              THEN Some(ExprInt(expr.i - RemovedBefore(removals, expr.i)))
              ELSE ExprInt(expr.i - RemovedBefore(removals, expr.i))
    ELSE IF expr.e = "none" THEN ExprNone
    ELSE IF expr.e = "some" THEN Some(adjust_reduce_expr(body, removals, expr.inner))
    ELSE IF expr.e = "call"
    THEN CallMethod(expr.method,
                    [i \in DOMAIN expr.args |-> adjust_reduce_expr(body, removals, expr.args[i])])
    ELSE ExprAccept

\* The flat Prods of one source production, in expansion order.
ProdsOfProduction(nt, prod_index, p) ==
    LET xs == expand_optional_symbols_in_rhs(p.body, 0)
    IN [i \in DOMAIN xs |->
            Prod(nt, prod_index, xs[i].rhs, xs[i].removals,
                 adjust_reduce_expr(p.body, xs[i].removals, p.action))]

RECURSIVE ProdsOfList(_, _, _)
ProdsOfList(nt, plist, k) ==
    IF k > Len(plist) THEN <<>>
    ELSE ProdsOfProduction(nt, k - 1, plist[k]) \o ProdsOfList(nt, plist, k + 1)

RECURSIVE AllProds(_, _)
AllProds(entries, k) ==
    IF k > Len(entries) THEN <<>>
    ELSE ProdsOfList(entries[k].nt, entries[k].prods, 1) \o AllProds(entries, k + 1)

\* [grammar, prods, prods_with_indexes_by_nt].  The per-nonterminal buckets
\* list each Prod's global index (0-based) with its rhs; a nonterminal
\* without productions has no bucket (the defaultdict's empty list).
expand_all_optional_elements(g) ==
    LET prods == AllProds(g.nonterminals, 1)
        expanded == [k \in DOMAIN g.nonterminals |->
            LET ps == ProdsOfList(g.nonterminals[k].nt, g.nonterminals[k].prods, 1)
                src == g.nonterminals[k].prods
            IN Entry(g.nonterminals[k].nt,
                     [i \in DOMAIN ps |-> Production(src[ps[i].index + 1].nt, ps[i].rhs, ps[i].action)])]
    IN [grammar |-> with_nonterminals(g, expanded),
        prods |-> prods,
        prods_with_indexes_by_nt |->
            [nt \in {prods[i].nt : i \in DOMAIN prods} |->
                LET idx == SelectSeq([i \in DOMAIN prods |-> i], LAMBDA i : prods[i].nt = nt)
                IN [j \in DOMAIN idx |-> [prod_index |-> idx[j] - 1, rhs |-> prods[idx[j]].rhs]]]]

make_epsilon_free_step_1(g) ==
    LET empties == empty_nt_set(g)
        hack(e) == IF is_nt(g, e) /\ e.n \in empties THEN Optional(e) ELSE e
    IN with_nonterminals(g,
        [k \in DOMAIN g.nonterminals |->
            Entry(g.nonterminals[k].nt,
                  [i \in DOMAIN g.nonterminals[k].prods |->
                      LET p == g.nonterminals[k].prods[i]
                      IN Production(p.nt, [j \in DOMAIN p.body |-> hack(p.body[j])], p.action)])])

make_epsilon_free_step_2(g) ==
    LET goal_nts == ToSet(goals(g))
    IN with_nonterminals(g,
        [k \in DOMAIN g.nonterminals |->
            Entry(g.nonterminals[k].nt,
                  SelectSeq(g.nonterminals[k].prods,
                            LAMBDA p : Len(p.body) > 0 \/ g.nonterminals[k].nt \in goal_nts))])

\* ------------------------------------------------------------------------
\* Start sets and follow sets.  `start` maps each nonterminal to an ordered
\* set of terminals (with EMPTY when it can match the empty string).

RECURSIVE seq_start(_, _, _)
RECURSIVE seq_start_loop(_, _, _, _, _)
RECURSIVE seq_start_loop_unbroken(_, _, _, _, _)
\* The loop without its `if EMPTY not in s: break`.
seq_start_loop_unbroken(g, start, seq, i, s) ==
    IF i > Len(seq) THEN s
    ELSE LET e == seq[i]
             s1 == ODiff(s, {EMPTY})
         IN IF is_terminal(g, e)
            THEN seq_start_loop_unbroken(g, start, seq, i + 1, OAdd(s1, e.n))
            ELSE IF is_nt(g, e)
            THEN seq_start_loop_unbroken(g, start, seq, i + 1, OUnion(s1, start[e.n]))
            ELSE LET future == seq_start(g, start, SubSeq(seq, i + 1, Len(seq)))
                 IN IF e.positive THEN OInter(future, e.set) ELSE ODiff(future, e.set)

seq_start_loop(g, start, seq, i, s) ==
    IF i > Len(seq) \/ ~Has(s, EMPTY) THEN s
    ELSE LET e == seq[i]
             s1 == ODiff(s, {EMPTY})
         IN IF is_terminal(g, e) THEN seq_start_loop(g, start, seq, i + 1, OAdd(s1, e.n))
            ELSE IF is_nt(g, e) THEN seq_start_loop(g, start, seq, i + 1, OUnion(s1, start[e.n]))
            ELSE LET future == seq_start(g, start, SubSeq(seq, i + 1, Len(seq)))
                 IN IF e.positive THEN OInter(future, e.set) ELSE ODiff(future, e.set)

seq_start(g, start, seq) == seq_start_loop(g, start, seq, 1, <<EMPTY>>)

RECURSIVE StartOfProductions(_, _, _)
StartOfProductions(g, start, plist) ==
    IF plist = <<>> THEN <<>>
    ELSE OUnion(seq_start(g, start, Head(plist).body),
                StartOfProductions(g, start, Tail(plist)))

\* One `for nt, plist in grammar.nonterminals.items()` pass, from entry k on.
RECURSIVE start_sets_pass(_, _, _, _)
start_sets_pass(g, st, k, done) ==
    IF k > Len(g.nonterminals) THEN [start |-> st, done |-> done]
    ELSE LET nt == g.nonterminals[k].nt
             nt_start == OrderedSet(StartOfProductions(g, st, g.nonterminals[k].prods))
         IN IF ToSet(nt_start) # ToSet(st[nt])
            THEN start_sets_pass(g, [st EXCEPT ![nt] = nt_start], k + 1, FALSE)
            ELSE start_sets_pass(g, st, k + 1, done)

RECURSIVE start_sets_loop(_, _)
start_sets_loop(g, st) ==
    LET r == start_sets_pass(g, st, 1, TRUE)
    IN IF r.done THEN r.start ELSE start_sets_loop(g, r.start)

start_sets(g) == start_sets_loop(g, [nt \in NtNames(g) |-> <<>>])

\* suffix_start_list(rhs): [err, sets]; sets[i + 1] is the source's sets[i].
\* `acc` holds the sets built so far, last first (the list before its reverse).
RECURSIVE suffix_start_loop(_, _, _, _, _)
suffix_start_loop(g, start, rhs, k, acc) ==
    IF k = 0 THEN [err |-> "none", sets |-> acc]
    ELSE LET e == rhs[k]
             last == Head(acc)
             s == IF is_terminal(g, e) THEN <<e.n>>
                  ELSE IF is_nt(g, e)
                       THEN IF Has(start[e.n], EMPTY)
                            THEN OUnion(ODiff(start[e.n], {EMPTY}), last)
                            ELSE start[e.n]
                       ELSE IF e.positive THEN OInter(last, e.set) ELSE ODiff(last, e.set)
         IN IF ToSet(s) # ToSet(seq_start(g, start, SubSeq(rhs, k, Len(rhs))))
            THEN [err |-> "AssertionError", sets |-> acc]
            ELSE suffix_start_loop(g, start, rhs, k - 1, <<s>> \o acc)

suffix_start_list(g, start, rhs) == suffix_start_loop(g, start, rhs, Len(rhs), << <<EMPTY>> >>)

\* [err, cache]: cache[n + 1][i + 1] is the source's cache[n][i].
make_start_set_cache(g, prods, start) ==
    LET lists == [n \in DOMAIN prods |-> suffix_start_list(g, start, prods[n].rhs)]
    IN [err |-> IF \E n \in DOMAIN lists : lists[n].err # "none" THEN "AssertionError" ELSE "none",
        cache |-> [n \in DOMAIN lists |-> lists[n].sets]]

\* prods_with_indexes_by_nt[nt], a defaultdict(list).
Bucket(by_nt, nt) == IF nt \in DOMAIN by_nt THEN by_nt[nt] ELSE <<>>

\* follow_sets.visit: f is [visited, follow, subsumes].
RECURSIVE visit(_, _, _, _, _)
RECURSIVE visit_rhs(_, _, _, _, _, _, _)
RECURSIVE visit_bucket(_, _, _, _, _, _)
visit_rhs(g, by_nt, cache, f, nt, pr, i) ==
    IF i > Len(pr.rhs) THEN f
    ELSE IF ~is_nt(g, pr.rhs[i]) THEN visit_rhs(g, by_nt, cache, f, nt, pr, i + 1)
    ELSE LET symbol == pr.rhs[i].n
             f1 == visit(g, by_nt, cache, f, symbol)
             after == cache[pr.prod_index + 1][i + 1]
             f2 == IF Has(after, EMPTY)
                   THEN [f1 EXCEPT !.subsumes = OAdd(@, <<symbol, nt>>)]
                   ELSE f1
         IN visit_rhs(g, by_nt, cache,
                      [f2 EXCEPT !.follow[symbol] = OUnion(@, ODiff(after, {EMPTY}))],
                      nt, pr, i + 1)

visit_bucket(g, by_nt, cache, f, nt, k) ==
    IF k > Len(Bucket(by_nt, nt)) THEN f
    ELSE visit_bucket(g, by_nt, cache,
                      visit_rhs(g, by_nt, cache, f, nt, Bucket(by_nt, nt)[k], 1), nt, k + 1)

visit(g, by_nt, cache, f, nt) ==
    IF nt \in f.visited THEN f
    ELSE visit_bucket(g, by_nt, cache, [f EXCEPT !.visited = @ \cup {nt}], nt, 1)

RECURSIVE VisitAll(_, _, _, _, _)
VisitAll(g, by_nt, cache, f, nts) ==
    IF nts = <<>> THEN f
    ELSE VisitAll(g, by_nt, cache, visit(g, by_nt, cache, f, Head(nts)), Tail(nts))

\* One pass of the fixed-point loop over subsumes_relation.
RECURSIVE subsume_pass(_, _, _, _)
subsume_pass(follow, rel, k, done) ==
    IF k > Len(rel) THEN [follow |-> follow, done |-> done]
    ELSE LET target == rel[k][1]
             source == rel[k][2]
         IN IF ToSet(follow[source]) \ ToSet(follow[target]) # {}
            THEN subsume_pass([follow EXCEPT ![target] = OUnion(@, follow[source])], rel, k + 1, FALSE)
            ELSE subsume_pass(follow, rel, k + 1, done)

RECURSIVE subsume_loop(_, _)
subsume_loop(follow, rel) ==
    LET r == subsume_pass(follow, rel, 1, TRUE)
    IN IF r.done THEN r.follow ELSE subsume_loop(r.follow, rel)

\* follow: a total map on the grammar's nonterminals (the source's
\* defaultdict gives the empty set for a nonterminal never reached).
follow_sets(g, by_nt, cache) ==
    LET inits == [i \in DOMAIN g.init_nts |-> InitNt(g.init_nts[i])]
        f0 == [visited |-> {},
               follow |-> [nt \in NtNames(g) |-> IF nt \in ToSet(inits) THEN <<END>> ELSE <<>>],
               subsumes |-> <<>>]
        f == VisitAll(g, by_nt, cache, f0, inits)
    IN subsume_loop(f.follow, f.subsumes)

\* ------------------------------------------------------------------------
\* LR items and states.  ctx is the PgenContext: [grammar, prods,
\* prods_with_indexes_by_nt, start_set_cache, follow].

PgenContext(g, prods, by_nt, cache, follow) ==
    [grammar |-> g, prods |-> prods, prods_with_indexes_by_nt |-> by_nt,
     start_set_cache |-> cache, follow |-> follow]

LRItem(prod_index, offset, lookahead, followed_by) ==
    [prod_index |-> prod_index, offset |-> offset, lookahead |-> lookahead,
     followed_by |-> followed_by]

Rhs(prods, item) == prods[item.prod_index + 1].rhs

item_key(item) == <<item.prod_index, item.offset, item.lookahead>>

\* Equality of LRItem tuples: followed_by compares as a set.
ItemEq(a, b) == item_key(a) = item_key(b) /\ ToSet(a.followed_by) = ToSet(b.followed_by)

HasItem(items, it) == \E i \in DOMAIN items : ItemEq(items[i], it)

AddItem(items, it) == IF HasItem(items, it) THEN items ELSE Append(items, it)

\* An LRItem left where it was asked for, lookahead rules not consumed.
make_lr_item_unadvanced(prods, prod_index, offset, lookahead, followed_by) ==
    LRItem(prod_index, offset, lookahead, followed_by)

RECURSIVE make_lr_item(_, _, _, _, _)
make_lr_item(prods, prod_index, offset, lookahead, followed_by) ==
    LET rhs == prods[prod_index + 1].rhs
    IN IF offset < Len(rhs) /\ is_lookahead_rule(rhs[offset + 1])
       THEN make_lr_item(prods, prod_index, offset + 1,
                         lookahead_intersect(lookahead, rhs[offset + 1]), followed_by)
       ELSE LRItem(prod_index, offset, lookahead, followed_by)

item_history(prods, item) ==
    SelectSeq(UpTo(Rhs(prods, item), item.offset), LAMBDA e : ~is_lookahead_rule(e))

\* Python's known_history[-n:] for n >= 0 (n = 0 gives the whole list).
LastN(s, n) == IF n = 0 \/ n >= Len(s) THEN s ELSE SubSeq(s, Len(s) - n + 1, Len(s))

\* TRUE iff the assertion of assert_items_are_compatible holds for all items.
items_are_compatible(prods, items) ==
    LET hist == [i \in DOMAIN items |-> item_history(prods, items[i])]
        m == CHOOSE i \in DOMAIN items :
                /\ \A j \in DOMAIN items : Len(hist[j]) <= Len(hist[i])
                /\ \A j \in DOMAIN items : Len(hist[j]) = Len(hist[i]) => i <= j
    IN \A i \in DOMAIN items :
          UpTo(hist[i], items[i].offset) = LastN(hist[m], items[i].offset)

\* State.__init__: consolidate the items by (prod_index, offset, lookahead).
RECURSIVE Consolidate(_, _)
Consolidate(acc, items) ==
    IF items = <<>> THEN acc
    ELSE LET it == Head(items)
         IN IF \E i \in DOMAIN acc : item_key(acc[i]) = item_key(it)
            THEN LET i == CHOOSE j \in DOMAIN acc : item_key(acc[j]) = item_key(it)
                 IN Consolidate([acc EXCEPT ![i].followed_by = OUnion(@, it.followed_by)],
                                Tail(items))
            ELSE Consolidate(Append(acc, it), Tail(items))

KeyLess(a, b) == a[1] < b[1] \/ (a[1] = b[1] /\ a[2] < b[2])

RECURSIVE SortKeys(_)
SortKeys(ks) ==
    IF ks = <<>> THEN <<>>
    ELSE LET m == CHOOSE i \in DOMAIN ks : \A j \in DOMAIN ks : j = i \/ ~KeyLess(ks[j], ks[i])
         IN <<ks[m]>> \o SortKeys(SubSeq(ks, 1, m - 1) \o SubSeq(ks, m + 1, Len(ks)))

\* State.key: the sorted listing of the items' (prod_index, offset, lookahead).
StateKey(items) == SortKeys([i \in DOMAIN items |-> item_key(items[i])])

\* A State object; `ok` is FALSE when assert_items_are_compatible fails in
\* the constructor.  id, action_row and ctn_row are set later.
State(ctx, items) ==
    LET lr_items == Consolidate(<<>>, items)
    IN [ok |-> items_are_compatible(ctx.prods, lr_items),
        lr_items |-> lr_items,
        key |-> StateKey(lr_items),
        id |-> -1,
        analyzed |-> FALSE,
        action_row |-> <<>>,
        ctn_row |-> <<>>]

new_followed_by(new_state, item) ==
    (new_state.lr_items[CHOOSE i \in DOMAIN new_state.lr_items :
                            item_key(new_state.lr_items[i]) = item_key(item)]).followed_by

\* State.update that takes the new followed_by instead of the union.
update_overwrite(self, new_state) ==
    IF new_state.key # self.key \/ Len(self.lr_items) # Len(new_state.lr_items)
    THEN [err |-> "AssertionError", changed |-> FALSE, state |-> self]
    ELSE IF ~\E i \in DOMAIN self.lr_items :
                ToSet(new_followed_by(new_state, self.lr_items[i]))
                    \ ToSet(self.lr_items[i].followed_by) # {}
    THEN [err |-> "none", changed |-> FALSE, state |-> self]
    ELSE [err |-> "none", changed |-> TRUE,
          state |-> [self EXCEPT !.lr_items =
                        [i \in DOMAIN @ |->
                            [@[i] EXCEPT !.followed_by =
                                new_followed_by(new_state, self.lr_items[i])]]]]

\* State.update that reports a change whether or not an item gained a symbol.
update_always_changed(self, new_state) ==
    IF new_state.key # self.key \/ Len(self.lr_items) # Len(new_state.lr_items)
    THEN [err |-> "AssertionError", changed |-> FALSE, state |-> self]
    ELSE [err |-> "none", changed |-> TRUE,
          state |-> [self EXCEPT !.lr_items =
                        [i \in DOMAIN @ |->
                            [@[i] EXCEPT !.followed_by =
                                OUnion(@, new_followed_by(new_state, self.lr_items[i]))]]]]

\* State.update: [changed, state], or err when one of its assertions fails.
update(self, new_state) ==
    IF new_state.key # self.key \/ Len(self.lr_items) # Len(new_state.lr_items)
    THEN [err |-> "AssertionError", changed |-> FALSE, state |-> self]
    ELSE IF ~\E i \in DOMAIN self.lr_items :
                ToSet(new_followed_by(new_state, self.lr_items[i]))
                    \ ToSet(self.lr_items[i].followed_by) # {}
    THEN [err |-> "none", changed |-> FALSE, state |-> self]
    ELSE [err |-> "none", changed |-> TRUE,
          state |-> [self EXCEPT !.lr_items =
                        [i \in DOMAIN @ |->
                            [@[i] EXCEPT !.followed_by =
                                OUnion(@, new_followed_by(new_state, self.lr_items[i]))]]]]

\* specific_follow that drops EMPTY without putting followed_by in its place.
specific_follow_rest_only(start_set_cache, prod_id, offset, followed_by) ==
    ODiff(start_set_cache[prod_id + 1][offset + 2], {EMPTY})

specific_follow(start_set_cache, prod_id, offset, followed_by) ==
    LET result == start_set_cache[prod_id + 1][offset + 2]
    IN IF Has(result, EMPTY)
       THEN OUnion(ODiff(result, {EMPTY}), followed_by)
       ELSE result

\* The step into every production of next_symbol from `item`.
RECURSIVE closure_step_in(_, _, _, _, _)
closure_step_in(ctx, item, bucket, k, acc) ==
    IF k > Len(bucket) THEN acc
    ELSE LET next_symbol == Rhs(ctx.prods, item)[item.offset + 1].n
             callee_rhs == bucket[k].rhs
         IN IF callee_rhs # <<>>
               \/ \E i \in DOMAIN ProdsOf(ctx.grammar, next_symbol) :
                      ProdsOf(ctx.grammar, next_symbol)[i].body = callee_rhs
            THEN LET followers == specific_follow(ctx.start_set_cache, item.prod_index,
                                                  item.offset, item.followed_by)
                     new_item == make_lr_item(ctx.prods, bucket[k].prod_index, 0,
                                              item.lookahead, followers)
                 IN IF ~HasItem(acc.closure, new_item)
                    THEN closure_step_in(ctx, item, bucket, k + 1,
                            [closure |-> Append(acc.closure, new_item),
                             todo |-> Append(acc.todo, new_item)])
                    ELSE closure_step_in(ctx, item, bucket, k + 1, acc)
            ELSE closure_step_in(ctx, item, bucket, k + 1, acc)

RECURSIVE closure_loop(_, _)
closure_loop(ctx, acc) ==
    IF acc.todo = <<>> THEN acc.closure
    ELSE LET item == Head(acc.todo)
             rhs == Rhs(ctx.prods, item)
             rest == [acc EXCEPT !.todo = Tail(@)]
         IN IF item.offset < Len(rhs) /\ is_nt(ctx.grammar, rhs[item.offset + 1])
            THEN closure_loop(ctx,
                    closure_step_in(ctx, item,
                        Bucket(ctx.prods_with_indexes_by_nt, rhs[item.offset + 1].n), 1, rest))
            ELSE closure_loop(ctx, rest)

\* State.closure() of a state's item sequence.
closure(ctx, lr_items) == closure_loop(ctx, [closure |-> lr_items, todo |-> lr_items])

\* ------------------------------------------------------------------------
\* Diagnostics of a shift-reduce conflict: why_follow and find_path decide
\* which exception leaves raise_shift_reduce_conflict.

\* The keys of why_follow's start_points, in insertion order.
RECURSIVE start_points_of_rhs(_, _, _, _, _)
start_points_of_rhs(ctx, tok, n, i, acc) ==
    LET rhs1 == ctx.prods[n].rhs
    IN IF i > Len(rhs1) - 1 THEN acc
       ELSE start_points_of_rhs(ctx, tok, n, i + 1,
                IF is_nt(ctx.grammar, rhs1[i]) /\ Has(ctx.start_set_cache[n][i + 1], tok)
                THEN OAdd(acc, rhs1[i].n) ELSE acc)

RECURSIVE start_points(_, _, _, _)
start_points(ctx, tok, n, acc) ==
    IF n > Len(ctx.prods) THEN acc
    ELSE start_points(ctx, tok, n + 1, start_points_of_rhs(ctx, tok, n, 1, acc))

\* find_path's first loop over start_set: b is [links, todo, res].
RECURSIVE find_path_seed(_, _, _)
find_path_seed(points, target, b) ==
    IF points = <<>> THEN b
    ELSE LET pt == Head(points)
         IN IF pt \in b.links THEN find_path_seed(Tail(points), target, b)
            ELSE IF pt = target THEN [b EXCEPT !.res = "found"]
            ELSE find_path_seed(Tail(points), target,
                                [b EXCEPT !.links = @ \cup {pt}, !.todo = Append(@, pt)])

\* `for edge, b in successors(a)` of why_follow, over a's bucket from k on.
RECURSIVE find_path_successors(_, _, _, _, _)
find_path_successors(ctx, bucket, k, target, b) ==
    IF k > Len(bucket) THEN b
    ELSE LET rhs == bucket[k].rhs
         IN IF rhs = <<>> THEN [b EXCEPT !.res = "IndexError"]
            ELSE LET last == rhs[Len(rhs)]
                 IN IF is_nt(ctx.grammar, last) /\ last.n \notin b.links
                    THEN IF last.n = target
                         THEN [b EXCEPT !.res = "found", !.links = @ \cup {last.n}, !.todo = <<>>]
                         ELSE find_path_successors(ctx, bucket, k + 1, target,
                                [b EXCEPT !.links = @ \cup {last.n}, !.todo = Append(@, last.n)])
                    ELSE find_path_successors(ctx, bucket, k + 1, target, b)

RECURSIVE find_path_loop(_, _, _)
find_path_loop(ctx, target, b) ==
    IF b.res # "searching" THEN b.res
    ELSE IF b.todo = <<>> THEN "None"
    ELSE find_path_loop(ctx, target,
            find_path_successors(ctx, Bucket(ctx.prods_with_indexes_by_nt, Head(b.todo)), 1,
                                 target, [b EXCEPT !.todo = Tail(@)]))

\* find_path(start_points.keys(), successors, point == nt) inside why_follow:
\* "found", "None" (no path) or "IndexError" (rhs[-1] of an empty rhs).
why_follow_path(ctx, nt, tok) ==
    find_path_loop(ctx, nt,
        find_path_seed(start_points(ctx, tok, 1, <<>>), nt,
                       [links |-> {}, todo |-> <<>>, res |-> "searching"]))

\* The exception that leaves raise_shift_reduce_conflict.
raise_shift_reduce_conflict(ctx, tok, nt) ==
    LET path == why_follow_path(ctx, nt, tok)
    IN IF path = "found" THEN "ShiftReduceConflict"
       ELSE IF path = "None" THEN "TypeError"
       ELSE "IndexError"

\* ------------------------------------------------------------------------
\* State.analyze and analyze_states.  The run's mutable data is threaded as
\* a = [states, states_by_key, todo, err, ret, updates]:
\*   states        the list `states`; a State object is referred to by its
\*                 position in it (objects never leave the list)
\*   states_by_key key -> position of the State object it maps to
\*   todo          the deque, as positions
\*   err           the exception raised so far, or "none"
\*   ret           the last value get_state_index returned
\*   updates       a record of each State.update call of the current step

ACCEPT == -2147483647

\* get_state_index that never records a new state under its key.
get_state_index_unregistered(a, successor) ==
    IF successor.key \in DOMAIN a.states_by_key
    THEN LET ref == a.states_by_key[successor.key]
             u == update(a.states[ref], successor)
         IN [a EXCEPT !.states[ref] = u.state,
                      !.todo = IF u.changed THEN Append(@, ref) ELSE @,
                      !.err = u.err,
                      !.ret = u.state.id,
                      !.updates = Append(@, [before |-> a.states[ref], new |-> successor,
                                             changed |-> u.changed, after |-> u.state])]
    ELSE LET state == [successor EXCEPT !.id = Len(a.states)]
         IN [a EXCEPT !.states = Append(@, state),
                      !.todo = Append(@, Len(a.states) + 1),
                      !.ret = state.id]

\* get_state_index that merges into a known state without queueing it again.
get_state_index_unqueued(a, successor) ==
    IF successor.key \in DOMAIN a.states_by_key
    THEN LET ref == a.states_by_key[successor.key]
             u == update(a.states[ref], successor)
         IN [a EXCEPT !.states[ref] = u.state,
                      !.err = u.err,
                      !.ret = u.state.id,
                      !.updates = Append(@, [before |-> a.states[ref], new |-> successor,
                                             changed |-> u.changed, after |-> u.state])]
    ELSE LET state == [successor EXCEPT !.id = Len(a.states)]
         IN [a EXCEPT !.states = Append(@, state),
                      !.states_by_key = (successor.key :> (Len(a.states) + 1)) @@ @,
                      !.todo = Append(@, Len(a.states) + 1),
                      !.ret = state.id]

get_state_index(a, successor) ==
    IF successor.key \in DOMAIN a.states_by_key
    THEN LET ref == a.states_by_key[successor.key]
             u == update(a.states[ref], successor)
         IN [a EXCEPT !.states[ref] = u.state,
                      !.todo = IF u.changed THEN Append(@, ref) ELSE @,
                      !.err = u.err,
                      !.ret = u.state.id,
                      !.updates = Append(@, [before |-> a.states[ref], new |-> successor,
                                             changed |-> u.changed, after |-> u.state])]
    ELSE LET state == [successor EXCEPT !.id = Len(a.states)]
         IN [a EXCEPT !.states = Append(@, state),
                      !.states_by_key = (successor.key :> (Len(a.states) + 1)) @@ @,
                      !.todo = Append(@, Len(a.states) + 1),
                      !.ret = state.id]

\* An insertion-ordered dict of item sets: a sequence of [k, items].
RowAdd(row, k, item) ==
    IF \E i \in DOMAIN row : row[i].k = k
    THEN LET i == CHOOSE j \in DOMAIN row : row[j].k = k
         IN [row EXCEPT ![i].items = AddItem(@, item)]
    ELSE Append(row, [k |-> k, items |-> <<item>>])

\* SLR instead: every terminal of FOLLOW(nt), whatever the item is followed by.
reduce_terminals_slr(ctx, item) == ctx.follow[ctx.prods[item.prod_index + 1].nt]

\* The terminals `for t in item.followed_by: if t in follow[nt]` lets through.
reduce_terminals(ctx, item) ==
    SelectSeq(item.followed_by,
              LAMBDA t : Has(ctx.follow[ctx.prods[item.prod_index + 1].nt], t))

\* The reduce candidates of an end-of-production item; r is the step-1 record.
RECURSIVE reduce_candidates(_, _, _, _)
reduce_candidates(ctx, item, k, r) ==
    IF k > Len(reduce_terminals(ctx, item)) THEN r
    ELSE LET tok == reduce_terminals(ctx, item)[k]
         IN IF \E i \in DOMAIN r.reduce_prods : r.reduce_prods[i].k = tok
            THEN [r EXCEPT !.err = "ReduceReduceConflict"]
            ELSE reduce_candidates(ctx, item, k + 1,
                    [r EXCEPT !.reduce_prods =
                        Append(@, [k |-> tok, prod_index |-> item.prod_index])])

\* Step 1 whose successor items keep the restriction of their source item.
RECURSIVE analyze_step_1_inheriting(_, _, _, _)
analyze_step_1_inheriting(ctx, items, k, r) ==
    IF k > Len(items) \/ r.err # "none" THEN r
    ELSE LET item == items[k]
             rhs == Rhs(ctx.prods, item)
         IN IF item.offset < Len(rhs)
            THEN LET next_symbol == rhs[item.offset + 1]
                     next_item == make_lr_item(ctx.prods, item.prod_index, item.offset + 1,
                                               item.lookahead, item.followed_by)
                 IN IF is_terminal(ctx.grammar, next_symbol)
                    THEN IF lookahead_contains(item.lookahead, next_symbol.n)
                         THEN analyze_step_1_inheriting(ctx, items, k + 1,
                                [r EXCEPT !.shift_items = RowAdd(@, next_symbol.n, next_item)])
                         ELSE analyze_step_1_inheriting(ctx, items, k + 1, r)
                    ELSE IF ~is_nt(ctx.grammar, next_symbol)
                    THEN [r EXCEPT !.err = "AssertionError"]
                    ELSE analyze_step_1_inheriting(ctx, items, k + 1,
                                [r EXCEPT !.ctn_items = RowAdd(@, next_symbol.n, next_item)])
            ELSE IF item.lookahead # NoLookahead
                 THEN [r EXCEPT !.err = "ActiveLookahead"]
                 ELSE analyze_step_1_inheriting(ctx, items, k + 1,
                                                reduce_candidates(ctx, item, 1, r))

\* Step 1: visit every item of the closure.
RECURSIVE analyze_step_1(_, _, _, _)
analyze_step_1(ctx, items, k, r) ==
    IF k > Len(items) \/ r.err # "none" THEN r
    ELSE LET item == items[k]
             rhs == Rhs(ctx.prods, item)
         IN IF item.offset < Len(rhs)
            THEN LET next_symbol == rhs[item.offset + 1]
                     next_item == make_lr_item(ctx.prods, item.prod_index, item.offset + 1,
                                               NoLookahead, item.followed_by)
                 IN IF is_terminal(ctx.grammar, next_symbol)
                    THEN IF lookahead_contains(item.lookahead, next_symbol.n)
                         THEN analyze_step_1(ctx, items, k + 1,
                                [r EXCEPT !.shift_items = RowAdd(@, next_symbol.n, next_item)])
                         ELSE analyze_step_1(ctx, items, k + 1, r)
                    ELSE IF ~is_nt(ctx.grammar, next_symbol)
                    THEN [r EXCEPT !.err = "AssertionError"]
                    ELSE analyze_step_1(ctx, items, k + 1,
                                [r EXCEPT !.ctn_items = RowAdd(@, next_symbol.n, next_item)])
            ELSE IF item.lookahead # NoLookahead
                 THEN [r EXCEPT !.err = "ActiveLookahead"]
                 ELSE analyze_step_1(ctx, items, k + 1, reduce_candidates(ctx, item, 1, r))

\* Step 2a: `for t, shift_state in shift_items.items()`; w is [a, row].
RECURSIVE analyze_successors(_, _, _, _)
analyze_successors(ctx, rows, k, w) ==
    IF k > Len(rows) \/ w.a.err # "none" THEN w
    ELSE LET st == State(ctx, rows[k].items)
         IN IF ~st.ok THEN [w EXCEPT !.a.err = "AssertionError"]
            ELSE LET a1 == get_state_index(w.a, st)
                 IN analyze_successors(ctx, rows, k + 1,
                        [a |-> a1, row |-> (rows[k].k :> a1.ret) @@ w.row])

\* The encoding without the "- 1" that keeps production 0 apart from state 0.
reduce_action_negated(ctx, prod_index) ==
    IF ctx.prods[prod_index + 1].nt \in InitNtNames(ctx.grammar)
    THEN ACCEPT
    ELSE -prod_index

\* The encoding of a reduce by flat production prod_index.
reduce_action(ctx, prod_index) ==
    IF ctx.prods[prod_index + 1].nt \in InitNtNames(ctx.grammar)
    THEN ACCEPT
    ELSE -prod_index - 1

\* Step 2b without its test for a shift already in the row: the reduce
\* replaces the shift.
RECURSIVE analyze_reduces_overwriting(_, _, _, _)
analyze_reduces_overwriting(ctx, reduce_prods, k, w) ==
    IF k > Len(reduce_prods) \/ w.a.err # "none" THEN w
    ELSE analyze_reduces_overwriting(ctx, reduce_prods, k + 1,
            [w EXCEPT !.row = (reduce_prods[k].k :> reduce_action(ctx, reduce_prods[k].prod_index))
                                  @@ @])

\* Step 2b: `for t, prod_index in reduce_prods.items()`.
RECURSIVE analyze_reduces(_, _, _, _)
analyze_reduces(ctx, reduce_prods, k, w) ==
    IF k > Len(reduce_prods) \/ w.a.err # "none" THEN w
    ELSE LET tok == reduce_prods[k].k
             prod == ctx.prods[reduce_prods[k].prod_index + 1]
         IN IF tok \in DOMAIN w.row
            THEN [w EXCEPT !.a.err = raise_shift_reduce_conflict(ctx, tok, prod.nt)]
            ELSE analyze_reduces(ctx, reduce_prods, k + 1,
                    [w EXCEPT !.row = (tok :> reduce_action(ctx, reduce_prods[k].prod_index))
                                          @@ @])

\* State.analyze of the State object at position `ref`.
analyze(ctx, a, ref) ==
    LET r == analyze_step_1(ctx, closure(ctx, a.states[ref].lr_items), 1,
                [shift_items |-> <<>>, ctn_items |-> <<>>, reduce_prods |-> <<>>, err |-> "none"])
    IN IF r.err # "none" THEN [a EXCEPT !.err = r.err]
       ELSE LET w1 == analyze_successors(ctx, r.shift_items, 1, [a |-> a, row |-> <<>>])
                w2 == analyze_reduces(ctx, r.reduce_prods, 1, w1)
                w3 == analyze_successors(ctx, r.ctn_items, 1, [a |-> w2.a, row |-> <<>>])
            IN IF w3.a.err # "none" THEN w3.a
               ELSE [w3.a EXCEPT !.states[ref].action_row = w2.row,
                                 !.states[ref].ctn_row = w3.row,
                                 !.states[ref].analyzed = TRUE]

\* ------------------------------------------------------------------------
\* Input grammars.

\* A production whose action captures every slot of its body.
P(nt, body) == Production(nt, body, CallMethod(nt, [i \in DOMAIN body |-> ExprInt(i - 1)]))

NotIn(S) == LookaheadRule(S, FALSE)

OneOf(S) == LookaheadRule(S, TRUE)

\* The productions a pool grammar is drawn from: goal S, nonterminal A,
\* terminals a, b, c.
Pool ==
    << P("S", <<>>),
       P("S", <<Sym("a")>>),
       P("S", <<Sym("A")>>),
       P("S", <<Sym("A"), Sym("b")>>),
       P("S", <<Sym("a"), Sym("A")>>),
       P("S", <<Sym("S"), Sym("S"), Sym("c")>>),
       P("S", <<Optional(Sym("a"))>>),
       P("S", <<Sym("a"), Optional(Sym("S")), Optional(Sym("b"))>>),
       P("S", <<NotIn({"a"}), Sym("A")>>),
       P("S", <<Sym("A"), OneOf({"b"}), Sym("b")>>),
       P("S", <<Sym("b"), NotIn({"a"})>>),
       P("S", <<Sym("A"), Sym("S")>>),
       P("A", <<>>),
       P("A", <<Sym("a")>>),
       P("A", <<Sym("S")>>),
       P("A", <<Sym("b"), Sym("A")>>),
       P("A", <<NotIn({"b"}), Sym("a")>>),
       P("A", <<Optional(Sym("A"))>>) >>

MaxProds == 3

PoolEntries(sel) ==
    LET of(nt) == SelectSeq(Pool, LAMBDA p : p.nt = nt /\ \E i \in sel : Pool[i] = p)
    IN <<Entry("S", of("S"))>> \o (IF of("A") = <<>> THEN <<>> ELSE <<Entry("A", of("A"))>>)

PoolGrammars ==
    { Grammar(PoolEntries(sel), <<"S">>) :
        sel \in { x \in SUBSET DOMAIN Pool :
                    /\ Cardinality(x) \in 1 .. MaxProds
                    /\ \E i \in x : Pool[i].nt = "S" } }

\* Grammars written out in full.
Arithmetic ==
    Grammar(<< Entry("E", <<P("E", <<Sym("E"), Sym("PLUS"), Sym("T")>>), P("E", <<Sym("T")>>)>>),
               Entry("T", <<P("T", <<Sym("T"), Sym("STAR"), Sym("F")>>), P("T", <<Sym("F")>>)>>),
               Entry("F", <<P("F", <<Sym("LP"), Sym("E"), Sym("RP")>>), P("F", <<Sym("NUM")>>)>>) >>,
            <<"E">>)

DanglingElse ==
    Grammar(<< Entry("stmt", << P("stmt", <<Sym("IF"), Sym("expr"), Sym("stmt")>>),
                                P("stmt", <<Sym("IF"), Sym("expr"), Sym("stmt"), Sym("ELSE"), Sym("stmt")>>),
                                P("stmt", <<Sym("other")>>) >>) >>,
            <<"stmt">>)

Lalr ==
    Grammar(<< Entry("S", <<P("S", <<Sym("a"), Sym("A"), Sym("c")>>),
                            P("S", <<Sym("b"), Sym("A"), Sym("d")>>)>>),
               Entry("A", <<P("A", <<Sym("x")>>)>>) >>,
            <<"S">>)

TwoGoals ==
    Grammar(<< Entry("S", <<P("S", <<Sym("a"), Sym("A")>>)>>),
               Entry("A", <<P("A", <<Sym("b")>>), P("A", <<Sym("b"), Sym("A")>>)>>),
               Entry("U", <<P("U", <<Sym("u")>>)>>) >>,
            <<"A", "S">>)

Lookaheads ==
    Grammar(<< Entry("S", <<P("S", <<NotIn({"a"}), Sym("A")>>)>>),
               Entry("A", <<P("A", <<OneOf({"a", "b"}), NotIn({"c"}), Sym("b")>>)>>) >>,
            <<"S">>)

\* A function nonterminal L(x) applied with two arguments and to itself.
Functions ==
    Grammar(<< Entry("S", << P("S", <<Sym("a"), Apply("L", << <<"x", Val("p")>> >>)>>),
                             P("S", <<Apply("L", << <<"x", Val("q")>> >>), Sym("b")>>) >>),
               Parameterized("L", <<"x">>,
                   << ConditionalRhs("x", "p", P("L", <<Sym("c")>>)),
                      P("L", <<Sym("d"), Optional(Apply("L", << <<"x", Var("x")>> >>))>>) >>) >>,
            <<"S">>)

\* asi -> statement [lookahead not in {SEMI}], used where SEMI follows.
Asi ==
    Grammar(<< Entry("stmt", <<P("stmt", <<Sym("asi"), Sym("SEMI")>>)>>),
               Entry("asi", <<P("asi", <<Sym("statement"), NotIn({"SEMI"})>>)>>) >>,
            <<"stmt">>)

\* A LookaheadRule as the sole element of a body.
SoleLookahead ==
    Grammar(<< Entry("S", <<P("S", <<Sym("a")>>), P("S", <<NotIn({"a"})>>)>>) >>, <<"S">>)

\* A LookaheadRule that is last only once the Optional after it is dropped.
LookaheadBeforeOptional ==
    Grammar(<< Entry("S", <<P("S", <<Sym("b"), NotIn({"a"}), Optional(Sym("a"))>>)>>) >>,
            <<"S">>)

\* S -> A? B? with both children captured.
OptionalPair ==
    Grammar(<< Entry("S", <<P("S", <<Optional(Sym("A")), Optional(Sym("B"))>>)>>),
               Entry("A", <<P("A", <<Sym("a")>>)>>),
               Entry("B", <<P("B", <<Sym("b")>>)>>) >>,
            <<"S">>)

\* Three optional slots around a plain one, with an action that uses every
\* kind of reduction expression.
OptionalTriple ==
    Grammar(<< Entry("S", << Production("S",
                    <<Optional(Sym("a")), Sym("b"), Optional(Sym("c")), Optional(Sym("d"))>>,
                    CallMethod("f", << ExprInt(3), ExprNone, Some(ExprInt(0)),
                                       CallMethod("g", <<ExprInt(1), ExprInt(2)>>) >>)) >>) >>,
            <<"S">>)

\* A positive LookaheadRule with only a nullable nonterminal after it.
LookaheadBeforeNullable ==
    Grammar(<< Entry("S", <<P("S", <<OneOf({"b"}), Sym("A")>>)>>),
               Entry("A", <<P("A", <<>>)>>) >>,
            <<"S">>)

\* A LookaheadRule between a terminal and a nullable nonterminal: shifting
\* the terminal gives an item at the end of S -> a [lookahead in {b}].
RestrictionAfterShift ==
    Grammar(<< Entry("S", <<P("S", <<Sym("a"), OneOf({"b"}), Sym("A")>>)>>),
               Entry("A", <<P("A", <<>>)>>) >>,
            <<"S">>)

\* The same under V, after T -> a and U -> a, which both reduce on x.
ConflictBeforeRestriction ==
    Grammar(<< Entry("S", <<P("S", <<Sym("T"), Sym("x")>>), P("S", <<Sym("U"), Sym("x")>>),
                            P("S", <<Sym("V")>>)>>),
               Entry("T", <<P("T", <<Sym("a")>>)>>),
               Entry("U", <<P("U", <<Sym("a")>>)>>),
               Entry("V", <<P("V", <<Sym("a"), OneOf({"b"}), Sym("A")>>)>>),
               Entry("A", <<P("A", <<>>)>>) >>,
            <<"S">>)

\* The goal keeps its empty production through lowering, so in
\* S -> S [lookahead not in {a}] b a nullable nonterminal with c in its
\* start set stands before a LookaheadRule.
NullableBeforeLookahead ==
    Grammar(<< Entry("S", << P("S", <<>>),
                             P("S", <<Sym("S"), NotIn({"a"}), Sym("b")>>),
                             P("S", <<Sym("c")>>) >>) >>,
            <<"S">>)

\* After S S is stepped over, the item of S -> [lookahead not in {a}] S S
\* has a LookaheadRule before its cursor and stands with ^S -> S.
LookaheadBeforeCursor ==
    Grammar(<< Entry("S", << P("S", <<NotIn({"a"}), Sym("S"), Sym("S")>>),
                             P("S", <<Sym("b")>>) >>) >>,
            <<"S">>)

Catalogue ==
    {Arithmetic, DanglingElse, Lalr, TwoGoals, Lookaheads, Functions,
     Asi, SoleLookahead, LookaheadBeforeOptional, OptionalPair, OptionalTriple,
     LookaheadBeforeNullable, RestrictionAfterShift, ConflictBeforeRestriction,
     NullableBeforeLookahead, LookaheadBeforeCursor}

Targets == {"python", "rust", "c"}

\* ------------------------------------------------------------------------
\* The state machine: one run of generate_parser.

VARIABLES
    pc,          \* the call generate_parser makes next; "done" or "raised"
    input,       \* the grammar passed to generate_parser
    target,      \* the target passed to generate_parser
    grammar,     \* the local `grammar`, rebound by each lowering stage
    prods,       \* the flat production list
    prods_with_indexes_by_nt,
    start,       \* start_sets(grammar)
    start_set_cache,
    follow,
    states,      \* analyze_states: the list of State objects
    states_by_key,
    todo,
    init_state_map,
    error,       \* the exception that left generate_parser, or "none"
    emitted,     \* the emitter calls made, in order
    analyzed,    \* the last State.analyze call: [ref, lr_items] as it started
    updates      \* the State.update calls of the last step

vars == <<pc, input, target, grammar, prods, prods_with_indexes_by_nt, start,
          start_set_cache, follow, states, states_by_key, todo, init_state_map,
          error, emitted, analyzed, updates>>

lowering == <<prods, prods_with_indexes_by_nt>>

analysis == <<start, start_set_cache, follow>>

machine == <<states, states_by_key, todo, init_state_map, analyzed, updates>>

Context == PgenContext(grammar, prods, prods_with_indexes_by_nt, start_set_cache, follow)

Init ==
    /\ \E g \in PoolGrammars \cup Catalogue, tg \in Targets :
          /\ (tg = "python" \/ g \in Catalogue)
          /\ input = g
          /\ grammar = g
          /\ target = tg
    /\ pc = "generate_parser"
    /\ prods = <<>>
    /\ prods_with_indexes_by_nt = <<>>
    /\ start = <<>>
    /\ start_set_cache = <<>>
    /\ follow = <<>>
    /\ states = <<>>
    /\ states_by_key = <<>>
    /\ todo = <<>>
    /\ init_state_map = <<>>
    /\ error = "none"
    /\ emitted = <<>>
    /\ analyzed = [ref |-> 0, lr_items |-> <<>>]
    /\ updates = <<>>

\* Leave generate_parser with exception e.
Raise(e) == pc' = "raised" /\ error' = e

\* generate_parser's own assertions on its arguments.
Enter ==
    /\ pc = "generate_parser"
    /\ IF target \in {"python", "rust"}
       THEN pc' = "expand_function_nonterminals" /\ error' = error
       ELSE Raise("AssertionError")
    /\ UNCHANGED <<input, target, grammar, lowering, analysis, machine, emitted>>

ExpandFunctionNonterminals ==
    /\ pc = "expand_function_nonterminals"
    /\ LET r == expand_function_nonterminals(grammar)
       IN IF r.err # "none"
          THEN Raise(r.err) /\ grammar' = grammar
          ELSE pc' = "check_cycle_free" /\ error' = error /\ grammar' = r.grammar
    /\ UNCHANGED <<input, target, lowering, analysis, machine, emitted>>

CheckCycleFree ==
    /\ pc = "check_cycle_free"
    /\ IF check_cycle_free(grammar) # "none"
       THEN Raise(check_cycle_free(grammar))
       ELSE pc' = "check_lookahead_rules" /\ error' = error
    /\ UNCHANGED <<input, target, grammar, lowering, analysis, machine, emitted>>

CheckLookaheadRules ==
    /\ pc = "check_lookahead_rules"
    /\ IF check_lookahead_rules(grammar) # "none"
       THEN Raise(check_lookahead_rules(grammar))
       ELSE pc' = "make_epsilon_free_step_1" /\ error' = error
    /\ UNCHANGED <<input, target, grammar, lowering, analysis, machine, emitted>>

MakeEpsilonFreeStep1 ==
    /\ pc = "make_epsilon_free_step_1"
    /\ grammar' = make_epsilon_free_step_1(grammar)
    /\ pc' = "expand_all_optional_elements"
    /\ UNCHANGED <<input, target, lowering, analysis, machine, error, emitted>>

ExpandAllOptionalElements ==
    /\ pc = "expand_all_optional_elements"
    /\ LET r == expand_all_optional_elements(grammar)
       IN /\ grammar' = r.grammar
          /\ prods' = r.prods
          /\ prods_with_indexes_by_nt' = r.prods_with_indexes_by_nt
    /\ pc' = "make_epsilon_free_step_2"
    /\ UNCHANGED <<input, target, analysis, machine, error, emitted>>

MakeEpsilonFreeStep2 ==
    /\ pc = "make_epsilon_free_step_2"
    /\ grammar' = make_epsilon_free_step_2(grammar)
    /\ pc' = "start_sets"
    /\ UNCHANGED <<input, target, lowering, analysis, machine, error, emitted>>

StartSets ==
    /\ pc = "start_sets"
    /\ start' = start_sets(grammar)
    /\ pc' = "make_start_set_cache"
    /\ UNCHANGED <<input, target, grammar, lowering, start_set_cache, follow, machine,
                   error, emitted>>

MakeStartSetCache ==
    /\ pc = "make_start_set_cache"
    /\ LET r == make_start_set_cache(grammar, prods, start)
       IN IF r.err # "none"
          THEN Raise(r.err) /\ start_set_cache' = start_set_cache
          ELSE pc' = "follow_sets" /\ error' = error /\ start_set_cache' = r.cache
    /\ UNCHANGED <<input, target, grammar, lowering, start, follow, machine, emitted>>

FollowSets ==
    /\ pc = "follow_sets"
    /\ follow' = follow_sets(grammar, prods_with_indexes_by_nt, start_set_cache)
    /\ pc' = "analyze_states"
    /\ UNCHANGED <<input, target, grammar, lowering, start, start_set_cache, machine,
                   error, emitted>>

\* prods.index(x)
IndexOf(s, x) == (CHOOSE i \in DOMAIN s : s[i] = x /\ \A j \in DOMAIN s : s[j] = x => i <= j) - 1

\* analyze_states, "Compute the start states": a is threaded as in analyze.
RECURSIVE start_states(_, _, _)
start_states(ctx, k, w) ==
    IF k > Len(ctx.grammar.init_nts) \/ w.a.err # "none" THEN w
    ELSE LET goal == ctx.grammar.init_nts[k]
             init_prod_index == IndexOf(ctx.prods,
                                    Prod(InitNt(goal), 0, <<Sym(goal)>>, <<>>, ExprAccept))
             start_item == make_lr_item(ctx.prods, init_prod_index, 0, NoLookahead, <<END>>)
             init_state == State(ctx, <<start_item>>)
         IN IF ~init_state.ok THEN [w EXCEPT !.a.err = "AssertionError"]
            ELSE LET a1 == get_state_index(w.a, init_state)
                 IN start_states(ctx, k + 1, [a |-> a1, row |-> (goal :> a1.ret) @@ w.row])

AnalyzeStates ==
    /\ pc = "analyze_states"
    /\ LET w == start_states(Context, 1,
                    [a |-> [states |-> <<>>, states_by_key |-> <<>>, todo |-> <<>>,
                            err |-> "none", ret |-> -1, updates |-> <<>>],
                     row |-> <<>>])
       IN /\ states' = w.a.states
          /\ states_by_key' = w.a.states_by_key
          /\ todo' = w.a.todo
          /\ updates' = w.a.updates
          /\ init_state_map' = w.row
          /\ IF w.a.err # "none" THEN Raise(w.a.err)
             ELSE pc' = (IF w.a.todo = <<>> THEN "emit" ELSE "analyze") /\ error' = error
    /\ UNCHANGED <<input, target, grammar, lowering, analysis, emitted, analyzed>>

\* One turn of the crank: todo.popleft().analyze(get_state_index).
Analyze ==
    /\ pc = "analyze"
    /\ todo # <<>>
    /\ LET ref == Head(todo)
           a == analyze(Context,
                        [states |-> states, states_by_key |-> states_by_key,
                         todo |-> Tail(todo), err |-> "none", ret |-> -1, updates |-> <<>>],
                        ref)
       IN /\ states' = a.states
          /\ states_by_key' = a.states_by_key
          /\ todo' = a.todo
          /\ updates' = a.updates
          /\ analyzed' = [ref |-> ref, lr_items |-> states[ref].lr_items]
          /\ IF a.err # "none" THEN Raise(a.err)
             ELSE pc' = (IF a.todo = <<>> THEN "emit" ELSE "analyze") /\ error' = error
    /\ UNCHANGED <<input, target, grammar, lowering, analysis, init_state_map, emitted>>

\* Emit without regard to how the stages ended.
EmitRegardless ==
    /\ pc \in {"emit", "raised"}
    /\ emitted' = Append(emitted, IF target = "rust" THEN "write_rust_parser"
                                                      ELSE "write_python_parser")
    /\ pc' = "done"
    /\ UNCHANGED <<input, target, grammar, lowering, analysis, machine, error>>

\* The single emitter call that ends generate_parser.
Emit ==
    /\ pc = "emit"
    /\ emitted' = Append(emitted, IF target = "rust" THEN "write_rust_parser"
                                                      ELSE "write_python_parser")
    /\ pc' = "done"
    /\ UNCHANGED <<input, target, grammar, lowering, analysis, machine, error>>

Next ==
    \/ Enter
    \/ ExpandFunctionNonterminals
    \/ CheckCycleFree
    \/ CheckLookaheadRules
    \/ MakeEpsilonFreeStep1
    \/ ExpandAllOptionalElements
    \/ MakeEpsilonFreeStep2
    \/ StartSets
    \/ MakeStartSetCache
    \/ FollowSets
    \/ AnalyzeStates
    \/ Analyze
    \/ Emit

Spec == Init /\ [][Next]_vars

\* ------------------------------------------------------------------------
\* What State.analyze has in front of it for an item set, stated from the
\* closure alone (step 1 of State.analyze, without its bookkeeping).

AtEnd(item) == item.offset = Len(Rhs(prods, item))

NextSymbol(item) == Rhs(prods, item)[item.offset + 1]

\* The terminals with at least one shift successor item.
ShiftTerminalsOf(lr_items) ==
    LET c == closure(Context, lr_items)
    IN { NextSymbol(c[i]).n :
           i \in { j \in DOMAIN c :
                     /\ ~AtEnd(c[j])
                     /\ is_terminal(grammar, NextSymbol(c[j]))
                     /\ lookahead_contains(c[j].lookahead, NextSymbol(c[j]).n) } }

\* <<k, t>>: flat production k is a reduce candidate on terminal t.
ReduceCandidatesOf(lr_items) ==
    LET c == closure(Context, lr_items)
    IN UNION { { <<c[i].prod_index, t>> :
                   t \in ToSet(c[i].followed_by)
                           \cap ToSet(follow[prods[c[i].prod_index + 1].nt]) } :
               i \in { j \in DOMAIN c : AtEnd(c[j]) } }

\* The same for the item set the last State.analyze call started from.
ShiftTerminals == ShiftTerminalsOf(analyzed.lr_items)

ReduceCandidates == ReduceCandidatesOf(analyzed.lr_items)

ReduceTerminals == { c[2] : c \in ReduceCandidates }

\* C1: whenever the analyzed state has a terminal that is both a shift
\* terminal and a reduce candidate, generation has failed with a shift-reduce
\* conflict, or with a reduce-reduce or active-lookahead error raised first.
C1_ShiftReduceIsReported ==
    ShiftTerminals \cap ReduceTerminals # {}
        => /\ pc = "raised"
           /\ error \in {"ShiftReduceConflict", "ReduceReduceConflict", "ActiveLookahead"}

\* C2: a reduce-reduce conflict is raised only when two distinct flat
\* productions are reduce candidates on the same terminal of the analyzed
\* state; one production meeting its own reduce again does not raise it.
C2_ReduceReduceNeedsDistinctProductions ==
    error = "ReduceReduceConflict"
        => \E c, d \in ReduceCandidates : c[2] = d[2] /\ c[1] # d[1]

\* C3: the emitter is called at most once, exactly once by the time
\* generate_parser returns, the Rust emitter iff the target is 'rust' and the
\* Python emitter otherwise, only with every stage completed and every state
\* analyzed, and never in a run that raised.
C3_EmitterOnceAfterAllStages ==
    /\ Len(emitted) <= 1
    /\ (pc = "done") <=> (Len(emitted) = 1)
    /\ emitted # <<>> =>
          /\ error = "none"
          /\ (target = "rust") <=> (emitted[1] = "write_rust_parser")
          /\ (target # "rust") <=> (emitted[1] = "write_python_parser")
          /\ prods # <<>> /\ start # <<>> /\ start_set_cache # <<>> /\ follow # <<>>
          /\ states # <<>> /\ todo = <<>>
          /\ \A i \in DOMAIN states : states[i].analyzed
    /\ pc = "raised" => emitted = <<>> /\ error # "none"

C3_RustEmitterCalled ==
    pc = "done" /\ target = "rust" /\ emitted = <<"write_rust_parser">>

\* analyze_states has returned.
Returned == pc \in {"emit", "done"}

\* C4: when analyze_states has returned, every action-row entry is a shift
\* to a state id in range on a shift terminal, or -(k+1) for a reduce
\* candidate k of that terminal whose nt is no InitNt, or ACCEPT for a reduce
\* candidate whose nt is an InitNt (and such a candidate always gets ACCEPT);
\* every goto-row value is a state id in range.
C4_RowEntriesWellFormed ==
    Returned =>
        \A i \in DOMAIN states :
            LET row == states[i].action_row
                cands == ReduceCandidatesOf(states[i].lr_items)
            IN /\ \A t \in DOMAIN row :
                    \/ /\ row[t] \in 0 .. Len(states) - 1
                       /\ t \in ShiftTerminalsOf(states[i].lr_items)
                    \/ /\ row[t] < 0 /\ row[t] # ACCEPT
                       /\ -row[t] - 1 \in 0 .. Len(prods) - 1
                       /\ prods[-row[t]].nt \notin InitNtNames(grammar)
                       /\ <<-row[t] - 1, t>> \in cands
                    \/ /\ row[t] = ACCEPT
                       /\ \E c \in cands : c[2] = t /\ prods[c[1] + 1].nt \in InitNtNames(grammar)
               /\ \A c \in cands :
                    prods[c[1] + 1].nt \in InitNtNames(grammar)
                        => c[2] \in DOMAIN row /\ row[c[2]] = ACCEPT
               /\ \A n \in DOMAIN states[i].ctn_row :
                    states[i].ctn_row[n] \in 0 .. Len(states) - 1

C4_TablesWithEveryEntryKind ==
    /\ Returned
    /\ \E i \in DOMAIN states : \E t \in DOMAIN states[i].action_row :
          states[i].action_row[t] >= 0
    /\ \E i \in DOMAIN states : \E t \in DOMAIN states[i].action_row :
          states[i].action_row[t] < 0 /\ states[i].action_row[t] # ACCEPT
    /\ \E i \in DOMAIN states : \E t \in DOMAIN states[i].action_row :
          states[i].action_row[t] = ACCEPT
    /\ \E i \in DOMAIN states : states[i].ctn_row # <<>>

\* C5: at every moment, a reduce or ACCEPT entry for terminal t in the action
\* row of state s, with flat production p, has t in FOLLOW(p.nt) and t in the
\* followed_by of an item of p at end of production in the closure of s.
C5_ReducesWithinFollowedByAndFollow ==
    \A i \in DOMAIN states :
        \A t \in DOMAIN states[i].action_row :
            states[i].action_row[t] < 0 =>
                \E j \in DOMAIN closure(Context, states[i].lr_items) :
                    LET item == closure(Context, states[i].lr_items)[j]
                        p == prods[item.prod_index + 1]
                    IN /\ item.offset = Len(p.rhs)
                       /\ IF states[i].action_row[t] = ACCEPT
                          THEN p.nt \in InitNtNames(grammar)
                          ELSE item.prod_index = -states[i].action_row[t] - 1
                       /\ Has(item.followed_by, t)
                       /\ Has(follow[p.nt], t)

C5_ReduceInstalledOnPartOfFollow ==
    \E i \in DOMAIN states :
        \E t \in DOMAIN states[i].action_row :
            /\ states[i].action_row[t] < 0 /\ states[i].action_row[t] # ACCEPT
            /\ \E u \in ToSet(follow[prods[-states[i].action_row[t]].nt]) :
                  u \notin DOMAIN states[i].action_row

\* The symbols the closure of an item set can step over, and for each the
\* (prod_index, offset, lookahead) triples of the candidate successor state.
Steps(lr_items, sym) ==
    LET c == closure(Context, lr_items)
    IN { j \in DOMAIN c :
           /\ ~AtEnd(c[j])
           /\ NextSymbol(c[j]).n = sym
           /\ is_terminal(grammar, NextSymbol(c[j]))
                 => lookahead_contains(c[j].lookahead, sym) }

SuccessorSymbols(lr_items) ==
    LET c == closure(Context, lr_items)
    IN { sym \in { NextSymbol(c[j]).n : j \in { k \in DOMAIN c : ~AtEnd(c[k]) } } :
           Steps(lr_items, sym) # {} }

SuccessorTriples(lr_items, sym) ==
    LET c == closure(Context, lr_items)
    IN { item_key(make_lr_item(prods, c[j].prod_index, c[j].offset + 1, NoLookahead,
                               c[j].followed_by)) : j \in Steps(lr_items, sym) }

KeyTriples(key) == { key[j] : j \in DOMAIN key }

\* Where a row sends a symbol, if it is a shift or a goto.
Target(state, sym) ==
    IF sym \in DOMAIN state.ctn_row THEN state.ctn_row[sym] ELSE state.action_row[sym]

C6_IdsAndKeys ==
    /\ \A i \in DOMAIN states :
          /\ states[i].id = i - 1
          /\ KeyTriples(states[i].key)
                = { item_key(states[i].lr_items[j]) : j \in DOMAIN states[i].lr_items }
          /\ Len(states[i].key) = Len(states[i].lr_items)
          /\ \A j \in 1 .. Len(states[i].key) - 1 :
                KeyLess(states[i].key[j], states[i].key[j + 1])
          /\ \A j \in DOMAIN states : states[j].key = states[i].key => j = i
          /\ states[i].key \in DOMAIN states_by_key
          /\ states_by_key[states[i].key] = i
    /\ DOMAIN states_by_key = { states[i].key : i \in DOMAIN states }
    /\ \A i \in DOMAIN states :
          states[i].analyzed =>
              \A sym \in SuccessorSymbols(states[i].lr_items) :
                  /\ sym \in DOMAIN states[i].ctn_row \cup DOMAIN states[i].action_row
                  /\ Target(states[i], sym) \in 0 .. Len(states) - 1
                  /\ KeyTriples(states[Target(states[i], sym) + 1].key)
                        = SuccessorTriples(states[i].lr_items, sym)

\* One State.analyze call appends exactly one state per candidate key that
\* was not in states_by_key, after the states already there.
C6_Step ==
    /\ Len(states') >= Len(states)
    /\ \A i \in DOMAIN states :
          states'[i].id = states[i].id /\ states'[i].key = states[i].key
    /\ (pc = "analyze" /\ pc' # "raised") =>
          Len(states') = Len(states)
              + Cardinality({ SuccessorTriples(states[Head(todo)].lr_items, sym) :
                                sym \in SuccessorSymbols(states[Head(todo)].lr_items) }
                            \ { KeyTriples(states[i].key) : i \in DOMAIN states })

\* C6: throughout analyze_states, states[i].id = i, the key of a state is the
\* sorted listing of its items' (prod_index, offset, lookahead), no two
\* states share a key, states_by_key maps each key to the state that has it,
\* a candidate with a known key gets that state's id without a new entry, and
\* a candidate with a new key is appended with id = the previous length.
C6_StatesAreKeyedAndNumbered == []C6_IdsAndKeys /\ [][C6_Step]_vars

C6_CandidateMetKnownKey ==
    /\ updates # <<>>
    /\ Len(states) > 2
    /\ \E i \in DOMAIN states : i - 1 \in { states[i].action_row[t] : t \in DOMAIN states[i].action_row }

\* The followed_by a state holds for a (prod_index, offset, lookahead) triple.
FollowedByOf(state, triple) ==
    UNION { ToSet(state.lr_items[k].followed_by) :
              k \in { j \in DOMAIN state.lr_items : item_key(state.lr_items[j]) = triple } }

Triples(state) == [j \in DOMAIN state.lr_items |-> item_key(state.lr_items[j])]

\* Every State.update call of the last step did what C7 says.
C7_UpdateLog ==
    \A n \in DOMAIN updates :
        LET u == updates[n]
            covered == \A j \in DOMAIN u.before.lr_items :
                          FollowedByOf(u.new, item_key(u.before.lr_items[j]))
                              \subseteq ToSet(u.before.lr_items[j].followed_by)
        IN /\ u.new.key = u.before.key
           /\ Triples(u.after) = Triples(u.before)
           /\ u.after.key = u.before.key
           /\ u.after.id = u.before.id
           /\ u.changed <=> ~covered
           /\ covered => u.after = u.before
           /\ \A j \in DOMAIN u.before.lr_items :
                 ToSet(u.after.lr_items[j].followed_by)
                    = ToSet(u.before.lr_items[j].followed_by)
                        \cup FollowedByOf(u.new, item_key(u.before.lr_items[j]))
           /\ states[u.before.id + 1].key = u.before.key

\* No followed_by of a state in `states` loses an element in a step.
C7_Monotone ==
    \A i \in DOMAIN states :
        /\ i \in DOMAIN states'
        /\ Triples(states'[i]) = Triples(states[i])
        /\ \A j \in DOMAIN states[i].lr_items :
              ToSet(states[i].lr_items[j].followed_by)
                  \subseteq ToSet(states'[i].lr_items[j].followed_by)

\* C7: State.update on two states of equal key returns False and changes
\* nothing when every new followed_by is within the existing one for its
\* triple, and otherwise returns True and leaves each item with the union of
\* the two; triples, key and id stay, and no followed_by ever shrinks.
C7_UpdateIsUnionOrNothing == []C7_UpdateLog /\ [][C7_Monotone]_vars

C7_UpdateGrewAndKept ==
    /\ \E n \in DOMAIN updates :
          /\ updates[n].changed
          /\ \E j \in DOMAIN updates[n].before.lr_items :
                /\ ToSet(updates[n].before.lr_items[j].followed_by)
                      \ FollowedByOf(updates[n].new, item_key(updates[n].before.lr_items[j])) # {}
                /\ FollowedByOf(updates[n].new, item_key(updates[n].before.lr_items[j]))
                      \ ToSet(updates[n].before.lr_items[j].followed_by) # {}
    /\ \E m \in DOMAIN updates : ~updates[m].changed

\* The lookahead restrictions and the tokens that occur in the flat productions.
LookaheadsInProds ==
    {NoLookahead} \cup UNION { { prods[p].rhs[k] :
                                   k \in { j \in DOMAIN prods[p].rhs :
                                             is_lookahead_rule(prods[p].rhs[j]) } } :
                               p \in DOMAIN prods }

TokensInProds ==
    {END} \cup UNION { UNION { IF is_lookahead_rule(prods[p].rhs[k])
                               THEN prods[p].rhs[k].set
                               ELSE {prods[p].rhs[k].n} : k \in DOMAIN prods[p].rhs } :
                       p \in DOMAIN prods }

\* rhs[offset], if present, is a terminal or a nonterminal.
NextIsSymbol(item) ==
    ~AtEnd(item) =>
        /\ ~is_lookahead_rule(NextSymbol(item))
        /\ is_terminal(grammar, NextSymbol(item)) \/ is_nt(grammar, NextSymbol(item))

\* C8: in the items of every state and in the closure computed from them,
\* rhs[offset] (if present) is a terminal or nonterminal, never a
\* LookaheadRule; and make_lr_item, from any offset and lookahead, stops at
\* the first element that is no LookaheadRule, having passed only
\* LookaheadRules, with a lookahead that admits exactly the tokens admitted
\* by the lookahead it was given and by every rule it passed.
C8_NextElementIsNeverALookaheadRule ==
    /\ \A i \in DOMAIN states :
          /\ \A j \in DOMAIN states[i].lr_items : NextIsSymbol(states[i].lr_items[j])
          /\ \A j \in DOMAIN closure(Context, states[i].lr_items) :
                NextIsSymbol(closure(Context, states[i].lr_items)[j])
    /\ \A p \in DOMAIN prods : \A o \in 0 .. Len(prods[p].rhs) : \A la \in LookaheadsInProds :
          LET r == make_lr_item(prods, p - 1, o, la, <<END>>)
              rhs == prods[p].rhs
          IN /\ r.prod_index = p - 1 /\ r.followed_by = <<END>>
             /\ r.offset \in o .. Len(rhs)
             /\ \A k \in o + 1 .. r.offset : is_lookahead_rule(rhs[k])
             /\ r.offset < Len(rhs) => ~is_lookahead_rule(rhs[r.offset + 1])
             /\ \A t \in TokensInProds :
                   lookahead_contains(r.lookahead, t)
                      <=> /\ lookahead_contains(la, t)
                          /\ \A k \in o + 1 .. r.offset : lookahead_contains(rhs[k], t)

\* A closure item that inherited one restriction and passed two more.
C8_ClosureItemFoldedThreeRules ==
    \E i \in DOMAIN states : \E j \in DOMAIN closure(Context, states[i].lr_items) :
        LET item == closure(Context, states[i].lr_items)[j]
            rhs == Rhs(prods, item)
        IN /\ item.offset = 2
           /\ is_lookahead_rule(rhs[1]) /\ is_lookahead_rule(rhs[2])
           /\ item.lookahead # NoLookahead
           /\ item.lookahead # lookahead_intersect(rhs[1], rhs[2])

\* An element that can be left out of a right-hand side, the nonterminals of
\* N being the ones that derive the empty string.
Erasable(g, N, e) == is_lookahead_rule(e) \/ is_optional(e) \/ (is_nt(g, e) /\ e.n \in N)

\* The nullable nonterminals: the least set holding every nonterminal that
\* has a production of erasable elements.
Nullable(g) ==
    { nt \in NtNames(g) :
        \A N \in SUBSET NtNames(g) :
            (\A i \in DOMAIN g.nonterminals :
                (\E k \in DOMAIN g.nonterminals[i].prods :
                    \A j \in DOMAIN g.nonterminals[i].prods[k].body :
                        Erasable(g, N, g.nonterminals[i].prods[k].body[j]))
                    => g.nonterminals[i].nt \in N)
                => nt \in N }

\* Some production of A keeps the nonterminal B, bare or optional, at one
\* place and only erasable elements everywhere else.
DerivesSingle(g, N, A, B) ==
    \E i \in DOMAIN g.nonterminals :
        /\ g.nonterminals[i].nt = A
        /\ \E k \in DOMAIN g.nonterminals[i].prods :
              LET body == g.nonterminals[i].prods[k].body
              IN \E m \in DOMAIN body :
                    /\ is_nt(g, IF is_optional(body[m]) THEN body[m].inner ELSE body[m])
                    /\ (IF is_optional(body[m]) THEN body[m].inner ELSE body[m]).n = B
                    /\ \A j \in DOMAIN body \ {m} : Erasable(g, N, body[j])

\* Some nonterminal reaches itself along a chain of DerivesSingle steps.
HasCycleWith(g, N) ==
    LET R == { ab \in NtNames(g) \X NtNames(g) : DerivesSingle(g, N, ab[1], ab[2]) }
    IN \E n \in 1 .. Cardinality(NtNames(g)) :
          \E path \in [0 .. n -> NtNames(g)] :
              /\ path[0] = path[n]
              /\ \A i \in 0 .. n - 1 : <<path[i], path[i + 1]>> \in R

\* C10: check_cycle_free raises exactly when some nonterminal is in its own
\* produces set, the transitive closure of "a production of A derives the
\* single nonterminal B once nullable nonterminals, left-out optionals and
\* LookaheadRules are erased"; generate_parser stops there with that error,
\* and goes on when there is no such nonterminal.
C10_CycleRaisedIffSelfProducing ==
    /\ pc = "check_cycle_free" =>
          ((check_cycle_free(grammar) = "Cycle") <=> HasCycleWith(grammar, Nullable(grammar)))
    /\ (pc = "raised" /\ error = "Cycle") => HasCycleWith(grammar, Nullable(grammar))
    /\ pc = "check_lookahead_rules" => ~HasCycleWith(grammar, Nullable(grammar))

\* A grammar rejected for a cycle that exists only by erasing a nullable
\* nonterminal.
C10_CycleThroughNullable ==
    /\ pc = "raised" /\ error = "Cycle"
    /\ HasCycleWith(grammar, Nullable(grammar))
    /\ ~HasCycleWith(grammar, {})

\* ------------------------------------------------------------------------
\* Stage E seen from outside: the grammar the validators were given, and what
\* dropping a set of optional slots leaves of a body.

\* The grammar check_cycle_free and check_lookahead_rules are called with.
StageEGrammar == expand_function_nonterminals(input).grammar

\* Both validators returned: the lowering that follows them has begun.
PassedStageE ==
    \/ pc \in {"make_epsilon_free_step_1", "expand_all_optional_elements"}
    \/ prods # <<>>

\* The 0-based indices of the Optional elements of a body.
OptionalSlots(body) == {i \in 0 .. Len(body) - 1 : is_optional(body[i + 1])}

\* The body with the slots of D left out and every other Optional replaced
\* by its inner symbol, from slot i on.
RECURSIVE Without(_, _, _)
Without(body, D, i) ==
    IF i >= Len(body) THEN <<>>
    ELSE (IF i \in D THEN <<>>
          ELSE <<IF is_optional(body[i + 1]) THEN body[i + 1].inner ELSE body[i + 1]>>)
         \o Without(body, D, i + 1)

\* The bodies of all productions of a grammar.
Bodies(g) ==
    UNION { {g.nonterminals[i].prods[k].body : k \in DOMAIN g.nonterminals[i].prods}
            : i \in DOMAIN g.nonterminals }

\* Some way of dropping optionals leaves a nonempty body ending in a LookaheadRule.
EndsWithLookahead(body) ==
    \E D \in SUBSET OptionalSlots(body) :
        LET r == Without(body, D, 0)
        IN r # <<>> /\ is_lookahead_rule(r[Len(r)])

\* Some way of dropping optionals leaves a nonempty body starting with a LookaheadRule.
StartsWithLookahead(body) ==
    \E D \in SUBSET OptionalSlots(body) :
        LET r == Without(body, D, 0)
        IN r # <<>> /\ is_lookahead_rule(r[1])

\* A LookaheadRule with only Optionals and nullable nonterminals after it.
LookaheadBeforeNullables(g, body) ==
    \E i \in DOMAIN body :
        /\ is_lookahead_rule(body[i])
        /\ \A j \in i + 1 .. Len(body) :
              is_optional(body[j]) \/ (is_nt(g, body[j]) /\ body[j].n \in Nullable(g))

\* C11: on a cycle-free grammar, check_lookahead_rules raises the
\* trailing-lookahead error exactly when some production has an optional
\* expansion that is nonempty and ends with a LookaheadRule (a body that is
\* a lone LookaheadRule, or `asi -> statement [lookahead not in {SEMI}]`,
\* included); an empty body never makes it raise.
C11_Step ==
    (pc = "check_lookahead_rules" /\ ~HasCycleWith(grammar, Nullable(grammar)))
        => /\ (pc' = "raised" /\ error' = "TrailingLookahead")
                <=> (\E b \in Bodies(grammar) : EndsWithLookahead(b))
           /\ (pc' # "raised") <=> (\A b \in Bodies(grammar) : ~EndsWithLookahead(b))
           /\ (\A b \in Bodies(grammar) : b = <<>>) => pc' # "raised"

C11_TrailingLookaheadRaised == [][C11_Step]_vars

\* C11 witness: the error was raised for a body whose LookaheadRule is last
\* only in the expansion that drops the Optional written after it.
C11_RaisedForDroppedOptional ==
    /\ pc = "raised" /\ error = "TrailingLookahead"
    /\ \E b \in Bodies(grammar) :
          /\ EndsWithLookahead(b)
          /\ is_optional(b[Len(b)])
    /\ \A b \in Bodies(grammar) : b # <<>> => ~is_lookahead_rule(b[Len(b)])

\* C12: once stage E has succeeded, no production of the checked grammar has
\* a LookaheadRule followed only by nullable elements (Optionals and
\* nullable nonterminals).
C12_NoLookaheadBeforeOnlyNullables ==
    PassedStageE =>
        \A b \in Bodies(StageEGrammar) : ~LookaheadBeforeNullables(StageEGrammar, b)

\* C13 as stated: once stage E has succeeded, no production of the checked
\* grammar has an optional expansion that starts with a LookaheadRule or
\* ends with one.
C13_NoLookaheadAtEitherEnd ==
    PassedStageE =>
        \A b \in Bodies(StageEGrammar) : ~StartsWithLookahead(b) /\ ~EndsWithLookahead(b)

\* C13 amended: once stage E has succeeded, and for the rest of the run, no
\* production of the checked grammar has an optional expansion that ends
\* with a LookaheadRule; one that starts with a LookaheadRule may remain.
C13_NoLookaheadAtEnd ==
    PassedStageE => \A b \in Bodies(StageEGrammar) : ~EndsWithLookahead(b)

\* C13 witness: the tables were built and emitted for a grammar with a
\* production that starts with a LookaheadRule.
C13_LeadingLookaheadSurvived ==
    /\ pc = "done"
    /\ \E b \in Bodies(StageEGrammar) : StartsWithLookahead(b)

\* ------------------------------------------------------------------------
\* Stage F seen from outside: the flat Prods made from one source production.

\* The Prods of `ps` made from production number k (0-based) of nonterminal nt.
ProdsFrom(ps, nt, k) == SelectSeq(ps, LAMBDA x : x.nt = nt /\ x.index = k)

RECURSIVE Pow2(_)
Pow2(n) == IF n = 0 THEN 1 ELSE 2 * Pow2(n - 1)

\* What C14 says of the Prods `out` made from a source body.
ExpansionOfBody(body, out) ==
    /\ Len(out) = Pow2(Cardinality(OptionalSlots(body)))
    /\ {<<out[j].rhs, ToSet(out[j].removals)>> : j \in DOMAIN out}
          = {<<Without(body, D, 0), D>> : D \in SUBSET OptionalSlots(body)}
    /\ \A j \in DOMAIN out :
          /\ Len(body) = Len(out[j].rhs) + Len(out[j].removals)
          /\ \A m \in 1 .. Len(out[j].removals) - 1 :
                out[j].removals[m] < out[j].removals[m + 1]
          /\ ToSet(out[j].removals) \subseteq OptionalSlots(body)

\* C14: expand_all_optional_elements turns a source production whose body
\* has k Optional slots into exactly 2^k flat productions, one per subset
\* of the optional slots: len(body) = len(rhs) + len(removals), removals is
\* strictly ascending and names Optional slots of the body only, and rhs is
\* the body without the removed slots, every kept Optional replaced by its
\* inner symbol, in the original order.  For S -> A? B? the four results
\* are A B, A, B and the empty rhs, with removals [], [1], [0], [0, 1].
C14_Step ==
    pc = "expand_all_optional_elements" =>
        /\ \A i \in DOMAIN grammar.nonterminals :
              \A k \in DOMAIN grammar.nonterminals[i].prods :
                 ExpansionOfBody(grammar.nonterminals[i].prods[k].body,
                                 ProdsFrom(prods', grammar.nonterminals[i].nt, k - 1))
        /\ input = OptionalPair =>
              {<<x.rhs, x.removals>> : x \in ToSet(ProdsFrom(prods', "S", 0))}
                 = { <<<<Sym("A"), Sym("B")>>, <<>>>>, <<<<Sym("A")>>, <<1>>>>,
                     <<<<Sym("B")>>, <<0>>>>, <<<<>>, <<0, 1>>>> }

C14_OnePairPerSubsetOfOptionals == [][C14_Step]_vars

\* C14 witness: a body with three Optional slots has been expanded into
\* eight Prods, among them the one that drops all three.
C14_EightExpansions ==
    /\ pc = "make_epsilon_free_step_2"
    /\ \E i \in DOMAIN prods :
          /\ Len(prods[i].removals) = 3
          /\ Len(ProdsFrom(prods, prods[i].nt, prods[i].index)) = 8

\* The rewrite C15 describes, as a relation between a source reduction
\* expression and the one found in a Prod with the given rhs and removals.
RECURSIVE Rewritten(_, _, _, _, _)
Rewritten(body, rhs, removals, src, dst) ==
    IF src.e = "int"
    THEN LET shifted == src.i - Cardinality({r \in ToSet(removals) : r < src.i})
         IN IF src.i \in ToSet(removals) THEN dst = ExprNone
            ELSE /\ 0 <= shifted /\ shifted < Len(rhs)
                 /\ IF is_optional(body[src.i + 1])
                    THEN dst = Some(ExprInt(shifted)) /\ rhs[shifted + 1] = body[src.i + 1].inner
                    ELSE dst = ExprInt(shifted) /\ rhs[shifted + 1] = body[src.i + 1]
    ELSE IF src.e = "none" THEN dst = ExprNone
    ELSE IF src.e = "some"
    THEN dst.e = "some" /\ Rewritten(body, rhs, removals, src.inner, dst.inner)
    ELSE IF src.e = "call"
    THEN /\ dst.e = "call" /\ dst.method = src.method /\ Len(dst.args) = Len(src.args)
         /\ \A a \in DOMAIN src.args : Rewritten(body, rhs, removals, src.args[a], dst.args[a])
    ELSE dst = ExprAccept

\* C15: in every expanded production the reduction expression is the source
\* one with an integer i naming a removed slot turned into None, one naming
\* a kept Optional into Some(i'), one naming a kept plain slot into i',
\* with i' = i minus the number of removals below i; None, Some, CallMethod
\* and 'accept' keep their structure; 0 <= i' < len(rhs) and rhs[i'] is the
\* symbol (the inner one of an Optional) that stood at body[i].  For
\* S -> A? B? capturing [0, 1] the rewrites are [Some(0), Some(1)],
\* [Some(0), None], [None, Some(0)] and [None, None].
C15_Step ==
    pc = "expand_all_optional_elements" =>
        /\ \A i \in DOMAIN grammar.nonterminals :
              \A k \in DOMAIN grammar.nonterminals[i].prods :
                 LET p == grammar.nonterminals[i].prods[k]
                     out == ProdsFrom(prods', grammar.nonterminals[i].nt, k - 1)
                 IN \A j \in DOMAIN out :
                       Rewritten(p.body, out[j].rhs, out[j].removals, p.action, out[j].action)
        /\ input = OptionalPair =>
              {<<x.removals, x.action.args>> : x \in ToSet(ProdsFrom(prods', "S", 0))}
                 = { <<<<>>, <<Some(ExprInt(0)), Some(ExprInt(1))>>>>,
                     <<<<1>>, <<Some(ExprInt(0)), ExprNone>>>>,
                     <<<<0>>, <<ExprNone, Some(ExprInt(0))>>>>,
                     <<<<0, 1>>, <<ExprNone, ExprNone>>>> }

C15_ReduceExpressionsFollowRemovals == [][C15_Step]_vars

\* C15 witness: a Prod whose action holds a shifted plain index, a shifted
\* Some, a None for a removed slot and a nested CallMethod: the expansion of
\* a? b c? d? that drops a and c, rewritten from f(3, None, Some(0), g(1, 2)).
C15_ShiftedThroughEveryKind ==
    /\ pc = "make_epsilon_free_step_2"
    /\ \E i \in DOMAIN prods :
          /\ prods[i].removals = <<0, 2>>
          /\ prods[i].rhs = <<Sym("b"), Sym("d")>>
          /\ prods[i].action =
                CallMethod("f", << Some(ExprInt(1)), ExprNone, Some(ExprNone),
                                   CallMethod("g", <<ExprInt(0), ExprNone>>) >>)

\* ------------------------------------------------------------------------
\* Stage G seen from outside.

\* make_epsilon_free_step_2 has returned and nothing has been raised since.
AfterStageG ==
    pc \in {"start_sets", "make_start_set_cache", "follow_sets", "analyze_states",
            "analyze", "emit", "done"}

\* No production of the lowered grammar is empty unless it belongs to a goal.
GrammarIsEpsilonFree ==
    \A i \in DOMAIN grammar.nonterminals :
        \A k \in DOMAIN grammar.nonterminals[i].prods :
            grammar.nonterminals[i].prods[k].body = <<>>
                => grammar.nonterminals[i].nt \in ToSet(goals(grammar))

\* No flat production of prods or of its buckets is empty unless it belongs
\* to a goal.
ProdsAreEpsilonFree ==
    /\ \A i \in DOMAIN prods :
          prods[i].rhs = <<>> => prods[i].nt \in ToSet(goals(grammar))
    /\ \A nt \in DOMAIN prods_with_indexes_by_nt :
          \A j \in DOMAIN prods_with_indexes_by_nt[nt] :
              prods_with_indexes_by_nt[nt][j].rhs = <<>> => nt \in ToSet(goals(grammar))

\* C16: after make_epsilon_free_step_2 no production body is empty except
\* on goal nonterminals, in the lowered grammar and in the flat list prods
\* (and its per-nonterminal buckets) handed to the FIRST/FOLLOW analysis,
\* the state construction and the emitter.
C16_NoEmptyBodiesExceptOnGoals ==
    AfterStageG => GrammarIsEpsilonFree /\ ProdsAreEpsilonFree

\* ------------------------------------------------------------------------
\* Stage D seen from outside: which specialisations a grammar calls for.

\* The value bound to a parameter by the arguments of a key.
Binding(key, param) ==
    (CHOOSE pair \in ToSet(key.args) : pair[1] = param)[2]

\* The productions of g that count for a key: the plain ones, and the rhs
\* of each ConditionalRhs whose parameter is bound to its value.
Active(g, key) ==
    LET plist == EntryOf(g, key.nt).prods
    IN { IF is_conditional(plist[i]) THEN plist[i].rhs ELSE plist[i] :
            i \in { j \in DOMAIN plist :
                       is_conditional(plist[j])
                           => Binding(key, plist[j].param) = plist[j].value } }

\* An element without the Optional around it.
Bare(e) == IF is_optional(e) THEN e.inner ELSE e

\* The key an element of a production of `key` refers to.
Callee(key, e) ==
    IF is_apply(Bare(e))
    THEN NameKey(Bare(e).nt, TRUE,
                 [i \in DOMAIN Bare(e).args |->
                    <<Bare(e).args[i][1],
                      IF Bare(e).args[i][2].var THEN Binding(key, Bare(e).args[i][2].v)
                                                 ELSE Bare(e).args[i][2].v>>])
    ELSE NameKey(Bare(e).n, FALSE, <<>>)

\* The keys the active productions of a key refer to.
Callees(g, key) ==
    UNION { {Callee(key, p.body[i]) :
                i \in {j \in DOMAIN p.body : is_apply(Bare(p.body[j])) \/ is_nt(g, Bare(p.body[j]))}}
            : p \in Active(g, key) }

RECURSIVE ReachFrom(_, _)
ReachFrom(g, K) ==
    LET more == K \cup UNION {Callees(g, k) : k \in K}
    IN IF more = K THEN K ELSE ReachFrom(g, more)

\* The (nt, args) pairs reachable from the goals.
Reachable(g) == ReachFrom(g, {NameKey(goals(g)[i], FALSE, <<>>) : i \in DOMAIN goals(g)})

\* An element as it stands after stage D, in a production of `key`.
Named(key, e) ==
    IF is_apply(Bare(e))
    THEN (IF is_optional(e) THEN Optional(Sym(DerivedName(Callee(key, e))))
                            ELSE Sym(DerivedName(Callee(key, e))))
    ELSE e

\* What C17 says of the grammar h returned for the grammar g.
ExpandedFrom(g, h) ==
    /\ NtNames(h) \ InitNtNames(h) = {DerivedName(k) : k \in Reachable(g)}
    /\ Cardinality(NtNames(h)) = Len(h.nonterminals)
    /\ \A k \in Reachable(g) :
          LET plist == ProdsOf(h, DerivedName(k))
          IN /\ Len(plist) = Cardinality(Active(g, k))
             /\ ToSet(plist) =
                   { Production(p.nt, [i \in DOMAIN p.body |-> Named(k, p.body[i])], p.action)
                     : p \in Active(g, k) }
    /\ \A i \in DOMAIN h.nonterminals :
          /\ ~is_parameterized(h.nonterminals[i])
          /\ \A j \in DOMAIN h.nonterminals[i].prods :
                /\ ~is_conditional(h.nonterminals[i].prods[j])
                /\ \A m \in DOMAIN h.nonterminals[i].prods[j].body :
                      ~is_apply(Bare(h.nonterminals[i].prods[j].body[m]))

\* C17: the grammar expand_function_nonterminals returns has as keys
\* exactly the derived names of the (nt, args) pairs reachable from the
\* goals (the bare name without arguments, the name built from nt and its
\* evaluated argument bindings otherwise), once each and each with its
\* production list; names never reached are gone.  No body holds a Var or an
\* Apply (also inside Optional: each became the derived name of its
\* evaluated arguments), no ConditionalRhs is left (its rhs was kept iff the
\* binding maps its parameter to its value) and no entry is parameterized.
C17_Step ==
    (pc = "expand_function_nonterminals" /\ pc' = "check_cycle_free")
        => ExpandedFrom(grammar, grammar')

C17_OnlyReachableSpecialisations == [][C17_Step]_vars

\* C17 witness: stage D has specialised one function nonterminal for two
\* argument values, kept a ConditionalRhs for one of them only, and named
\* an Apply that stood inside an Optional through a Var.
C17_TwoSpecialisations ==
    /\ pc = "check_cycle_free"
    /\ input = Functions
    /\ {"L{x=p}", "L{x=q}"} \subseteq NtNames(grammar)
    /\ "L" \notin NtNames(grammar)
    /\ Len(ProdsOf(grammar, "L{x=p}")) = 2
    /\ ProdsOf(grammar, "L{x=q}") =
          << Production("L", <<Sym("d"), Optional(Sym("L{x=q}"))>>,
                        CallMethod("L", <<ExprInt(0), ExprInt(1)>>)) >>

\* ------------------------------------------------------------------------
\* Stage H seen from outside.

\* start_sets has returned: `start` holds FIRST for the lowered grammar.
HasStartSets ==
    pc \in {"make_start_set_cache", "follow_sets", "analyze_states", "analyze", "emit", "done"}

\* The terminals and nonterminals that occur in the grammar.
SymbolsOf(g) ==
    {Sym(n) : n \in NtNames(g)}
        \cup UNION { {b[i] : i \in {j \in DOMAIN b : b[j].t = "sym"}} : b \in Bodies(g) }

\* The sequences of at most two symbols of the grammar.
ShortSequences(g) ==
    {<<>>} \cup {<<x>> : x \in SymbolsOf(g)}
           \cup {<<x, y>> : x \in SymbolsOf(g), y \in SymbolsOf(g)}

\* The suffixes of the bodies of the grammar that hold symbols only.
SymbolSuffixes(g) ==
    { sfx \in UNION { {From(b, i) : i \in 0 .. Len(b)} : b \in Bodies(g) } :
        \A i \in DOMAIN sfx : sfx[i].t = "sym" }

\* FIRST of one symbol, EMPTY left out.
FirstOf(g, e) == IF is_nt(g, e) THEN ToSet(start[e.n]) \ {EMPTY} ELSE {e.n}

\* What C18 says the start set of a sequence of symbols is.
ExpectedSeqStart(g, seq) ==
    LET nullable(i) == is_nt(g, seq[i]) /\ seq[i].n \in empty_nt_set(g)
        upto == {i \in DOMAIN seq : \A j \in 1 .. i - 1 : nullable(j)}
    IN UNION {FirstOf(g, seq[i]) : i \in upto}
          \cup (IF \A i \in DOMAIN seq : nullable(i) THEN {EMPTY} ELSE {})

\* C18: for the grammar start_sets was given, EMPTY is in FIRST(A) iff A is
\* in empty_nt_set of that grammar; and seq_start of a sequence of symbols
\* holds EMPTY iff every element is nullable, together with the terminals
\* and the FIRST sets of the elements up to and including the first one
\* that is not nullable.
C18_EmptyInFirstIffNullable ==
    HasStartSets =>
        /\ \A A \in NtNames(grammar) :
              Has(start[A], EMPTY) <=> A \in empty_nt_set(grammar)
        /\ \A seq \in ShortSequences(grammar) \cup SymbolSuffixes(grammar) :
              ToSet(seq_start(grammar, start, seq)) = ExpectedSeqStart(grammar, seq)

\* ------------------------------------------------------------------------
\* The two end-to-end grammars.

\* The item set holds production `rhs` of nt with the dot after `offset` elements.
HasKernelItem(lr_items, nt, rhs, offset) ==
    \E i \in DOMAIN lr_items :
        /\ prods[lr_items[i].prod_index + 1].nt = nt
        /\ Rhs(prods, lr_items[i]) = rhs
        /\ lr_items[i].offset = offset

\* C19: for stmt -> IF expr stmt | IF expr stmt ELSE stmt | other with goal
\* stmt, generation raises a shift-reduce conflict on the terminal ELSE,
\* found in the state whose kernel holds stmt -> IF expr stmt . and
\* stmt -> IF expr stmt . ELSE stmt; no tables are produced.
C19_DanglingElseIsRejected ==
    (input = DanglingElse /\ target \in {"python", "rust"}) =>
        /\ pc \notin {"emit", "done"}
        /\ emitted = <<>>
        /\ pc = "raised" =>
              /\ error = "ShiftReduceConflict"
              /\ ShiftTerminals \cap ReduceTerminals = {"ELSE"}
              /\ HasKernelItem(analyzed.lr_items, "stmt",
                               <<Sym("IF"), Sym("expr"), Sym("stmt")>>, 3)
              /\ HasKernelItem(analyzed.lr_items, "stmt",
                               <<Sym("IF"), Sym("expr"), Sym("stmt"), Sym("ELSE"), Sym("stmt")>>, 3)

\* C19 witness: the dangling-else run has ended with the conflict, in a
\* state that had been analyzed before without one (its row of then shifts
\* ELSE and reduces on END) and was queued again when ELSE was merged into
\* what follows its items.
C19_ConflictRaisedOnRevisit ==
    /\ input = DanglingElse
    /\ pc = "raised" /\ error = "ShiftReduceConflict"
    /\ "ELSE" \in ShiftTerminals \cap ReduceTerminals
    /\ states[analyzed.ref].analyzed
    /\ states[analyzed.ref].action_row["ELSE"] >= 0
    /\ states[analyzed.ref].action_row[END] < 0

\* C20: for E -> E PLUS T | T, T -> T STAR F | F, F -> LP E RP | NUM with goal
\* E the whole pipeline completes without raising anything, and in every
\* state every terminal has at most one action: no terminal is both shifted
\* and reduced on, none has two reduce candidates, and the action row has
\* an entry for exactly the terminals with an action.
C20_ArithmeticHasNoConflicts ==
    (input = Arithmetic /\ target \in {"python", "rust"}) =>
        /\ pc # "raised" /\ error = "none"
        /\ \A i \in DOMAIN states :
              LET shifts == ShiftTerminalsOf(states[i].lr_items)
                  cands == ReduceCandidatesOf(states[i].lr_items)
              IN (states[i].analyzed \/ pc = "done") =>
                    /\ shifts \cap {c[2] : c \in cands} = {}
                    /\ \A c \in cands : \A d \in cands : c[2] = d[2] => c[1] = d[1]
                    /\ DOMAIN states[i].action_row = shifts \cup {c[2] : c \in cands}

\* C20 witness: the arithmetic tables were emitted, twelve states, one of
\* them shifting STAR while reducing E -> T on PLUS.
C20_ArithmeticTablesEmitted ==
    /\ input = Arithmetic
    /\ pc = "done" /\ emitted # <<>>
    /\ Len(states) = 12
    /\ \E i \in DOMAIN states :
          /\ "STAR" \in ShiftTerminalsOf(states[i].lr_items)
          /\ "PLUS" \in {c[2] : c \in ReduceCandidatesOf(states[i].lr_items)}
          /\ states[i].action_row["STAR"] >= 0
          /\ states[i].action_row["PLUS"] < 0

\* ------------------------------------------------------------------------
\* The worklist of analyze_states.

\* The id of the state whose key lists the successor items of `lr_items` over
\* sym, or -1 when `states` has none.
RowTarget(lr_items, sym) ==
    LET want == SuccessorTriples(lr_items, sym)
        found == { j \in DOMAIN states : KeyTriples(states[j].key) = want }
    IN IF found = {} THEN -1 ELSE states[CHOOSE j \in found : TRUE].id

\* The rows of `state` are those its present item set gives: a shift for
\* every shift terminal, a reduce for every reduce candidate, a goto for
\* every nonterminal stepped over, each shift and goto naming the state that
\* holds the successor items with at least their followed_by.
RowsAreCurrent(state) ==
    LET shifts == ShiftTerminalsOf(state.lr_items)
        cands == ReduceCandidatesOf(state.lr_items)
        gotos == SuccessorSymbols(state.lr_items) \ shifts
    IN /\ state.analyzed
       /\ DOMAIN state.action_row = shifts \cup { c[2] : c \in cands }
       /\ \A t \in shifts : state.action_row[t] = RowTarget(state.lr_items, t)
       /\ \A c \in cands : state.action_row[c[2]] = reduce_action(Context, c[1])
       /\ DOMAIN state.ctn_row = gotos
       /\ \A n \in gotos : state.ctn_row[n] = RowTarget(state.lr_items, n)
       /\ \A sym \in shifts \cup gotos :
             LET c == closure(Context, state.lr_items)
                 to == RowTarget(state.lr_items, sym)
             IN /\ to \in 0 .. Len(states) - 1
                /\ \A j \in Steps(state.lr_items, sym) :
                      ToSet(c[j].followed_by) \subseteq
                          FollowedByOf(states[to + 1],
                                       item_key(make_lr_item(prods, c[j].prod_index,
                                                             c[j].offset + 1, NoLookahead,
                                                             c[j].followed_by)))

\* Every state off the worklist has current rows.
C21_OffWorklistIsCurrent ==
    pc \in {"analyze", "emit", "done"} =>
        /\ Returned => todo = <<>>
        /\ \A i \in DOMAIN states : ~Has(todo, i) => RowsAreCurrent(states[i])

\* A step of analyze_states queues every state a merge changed, and a state
\* leaves the worklist only by being analyzed.
C21_Step ==
    /\ pc \in {"analyze_states", "analyze"} =>
          \A n \in DOMAIN updates' :
              updates'[n].changed => Has(todo', updates'[n].before.id + 1)
    /\ \A i \in DOMAIN states :
          (Has(todo, i) /\ ~Has(todo', i)) => (pc = "analyze" /\ analyzed'.ref = i)

\* C21: a merge in get_state_index that changes a followed_by set puts the
\* merged state on the worklist, also when it is the state being analyzed; a
\* state leaves the worklist only by being analyzed; so once the worklist is
\* empty, the action_row and ctn_row of every state are the ones computed
\* from the closure of its final item set.
C21_ChangedStatesAreAnalyzedAgain == []C21_OffWorklistIsCurrent /\ [][C21_Step]_vars

\* The state just analyzed merged a successor into itself: its item set grew
\* under the analysis, its rows are those of the item set it had before, and
\* it is on the worklist again.
C21_SelfMergeAnalyzedAgain ==
    /\ pc = "analyze"
    /\ \E n \in DOMAIN updates :
          /\ updates[n].changed
          /\ updates[n].before.id + 1 = analyzed.ref
    /\ Has(todo, analyzed.ref)
    /\ ~RowsAreCurrent(states[analyzed.ref])

\* generate_parser is one sequential call, so whatever can run next does.
\* Stated on what a step is seen to do rather than on what it computes: a
\* stage outside the loop moves pc on, and a turn of `while todo` pops the
\* head of the worklist and calls analyze on it (what the call then does to
\* the worklist is left to Analyze).
StageEnds ==
    /\ pc \notin {"analyze", "done", "raised"}
    /\ pc' \in {"expand_function_nonterminals", "check_cycle_free", "check_lookahead_rules",
                "make_epsilon_free_step_1", "expand_all_optional_elements",
                "make_epsilon_free_step_2", "start_sets", "make_start_set_cache",
                "follow_sets", "analyze_states", "analyze", "emit", "done", "raised"}

Turn ==
    /\ pc = "analyze"
    /\ todo # <<>>
    /\ analyzed' = [ref |-> Head(todo), lr_items |-> states[Head(todo)].lr_items]

FairSpec == Spec /\ WF_pc(StageEnds) /\ WF_analyzed(Turn)

\* The terminals of the flat productions, and END.
TerminalsAndEnd ==
    {END} \cup UNION { { prods[p].rhs[k].n :
                           k \in { j \in DOMAIN prods[p].rhs :
                                     is_terminal(grammar, prods[p].rhs[j]) } } :
                       p \in DOMAIN prods }

\* The number of State.update calls of the last step that returned True.
Requeued(log) == Cardinality({ n \in DOMAIN log : log[n].changed })

\* Every followed_by of every state is within the terminals and END.
C22_FollowedByBounded ==
    \A i \in DOMAIN states : \A j \in DOMAIN states[i].lr_items :
        ToSet(states[i].lr_items[j].followed_by) \subseteq TerminalsAndEnd

\* A turn of the loop takes one state off the worklist (the one `analyzed`
\* then names) and puts one on for each new key and for each merge that
\* strictly enlarged a followed_by.
C22_Step ==
    pc = "analyze" =>
        /\ Len(todo') = Len(todo) - 1 + (Len(states') - Len(states)) + Requeued(updates')
        /\ \A n \in DOMAIN updates' :
              updates'[n].changed =>
                  /\ \E j \in DOMAIN updates'[n].before.lr_items :
                        /\ ToSet(updates'[n].before.lr_items[j].followed_by)
                              \subseteq ToSet(updates'[n].after.lr_items[j].followed_by)
                        /\ ToSet(updates'[n].before.lr_items[j].followed_by)
                              # ToSet(updates'[n].after.lr_items[j].followed_by)
                  /\ \A j \in DOMAIN updates'[n].after.lr_items :
                        ToSet(updates'[n].after.lr_items[j].followed_by)
                            \subseteq TerminalsAndEnd
        /\ \A i \in DOMAIN states : states'[i].key = states[i].key
        /\ analyzed' # analyzed

\* C22: analyze_states terminates on every grammar that reaches it: the run
\* ends with the worklist drained or with an exception; every turn of the
\* loop removes one worklist entry and adds one per new key and one per merge
\* that strictly enlarged a followed_by set, and every followed_by stays
\* within the terminals and END.
C22_WorklistDrains ==
    /\ <>(pc \in {"done", "raised"})
    /\ (pc = "analyze") ~> (pc \in {"emit", "raised"})
    /\ [](pc = "done" => todo = <<>>)
    /\ []C22_FollowedByBounded
    /\ [][C22_Step]_vars

\* A turn has just put a known state back on a worklist that was otherwise
\* drained, after a merge that gave one of its items a terminal it lacked.
C22_RequeuedOnLargerFollowedBy ==
    /\ pc = "analyze"
    /\ \E n \in DOMAIN updates :
          /\ updates[n].changed
          /\ todo = <<updates[n].before.id + 1>>
          /\ \E j \in DOMAIN updates[n].before.lr_items :
                /\ updates[n].before.lr_items[j].followed_by # <<>>
                /\ ToSet(updates[n].after.lr_items[j].followed_by)
                      \ ToSet(updates[n].before.lr_items[j].followed_by) # {}

\* ------------------------------------------------------------------------
\* Lookahead restrictions at the end of a production.

\* An item at the end of its production that still carries a restriction.
RestrictedAtEnd(item) == AtEnd(item) /\ item.lookahead # NoLookahead

HasRestrictedAtEnd(lr_items) ==
    \E j \in DOMAIN closure(Context, lr_items) :
        RestrictedAtEnd(closure(Context, lr_items)[j])

\* The offset right after the last terminal or nonterminal before the cursor
\* of `item`, 0 when there is none.
AfterLastSymbol(item) ==
    LET before == { k \in 1 .. item.offset : ~is_lookahead_rule(Rhs(prods, item)[k]) }
    IN IF before = {} THEN 0 ELSE CHOOSE k \in before : \A m \in before : m <= k

\* The first item of a closure that is restricted at its end.
FirstRestrictedAtEnd(c) ==
    CHOOSE n \in DOMAIN c : RestrictedAtEnd(c[n]) /\ \A m \in 1 .. n - 1 : ~RestrictedAtEnd(c[m])

\* Two items before position n of a closure reduce on a common terminal.
ReduceReduceBefore(c, n) ==
    \E i, j \in 1 .. n - 1 :
        /\ i < j
        /\ AtEnd(c[i]) /\ AtEnd(c[j])
        /\ ToSet(reduce_terminals(Context, c[i])) \cap ToSet(reduce_terminals(Context, c[j])) # {}

\* No state with a restricted item at the end of a production in its closure
\* has rows, so no reduce is installed for such an item.
NoRowsWhereRestrictedAtEnd ==
    \A i \in DOMAIN states :
        HasRestrictedAtEnd(states[i].lr_items) =>
            /\ ~states[i].analyzed
            /\ states[i].action_row = <<>>
            /\ states[i].ctn_row = <<>>

\* C23: State.analyze of a state whose closure has a restricted item at the
\* end of its production raises the lookahead error, no reduce is installed
\* for that item, and no item of a state carries a restriction (successor
\* items start from an absent lookahead; only items the closure adds carry
\* one).
C23_OnlyClosureItemsRestricted ==
    /\ (analyzed.ref # 0 /\ HasRestrictedAtEnd(analyzed.lr_items)) =>
          pc = "raised" /\ error = "ActiveLookahead"
    /\ NoRowsWhereRestrictedAtEnd
    /\ \A i \in DOMAIN states : \A j \in DOMAIN states[i].lr_items :
          states[i].lr_items[j].lookahead = NoLookahead

\* What the code does: State.analyze of a state whose closure has a restricted
\* item at the end of its production raises: the lookahead error, unless two
\* items before that one in the closure reduce on a common terminal, and then
\* the reduce-reduce conflict; no reduce is installed for such an item.  The
\* items of a state are built by make_lr_item from an absent lookahead right
\* after the symbol stepped over, so they carry a restriction exactly when
\* LookaheadRules stand between that symbol and the cursor.
RestrictedAtEndIsRejected ==
    /\ (analyzed.ref # 0 /\ HasRestrictedAtEnd(analyzed.lr_items)) =>
          LET c == closure(Context, analyzed.lr_items)
          IN /\ pc = "raised"
             /\ error = IF ReduceReduceBefore(c, FirstRestrictedAtEnd(c))
                        THEN "ReduceReduceConflict" ELSE "ActiveLookahead"
    /\ NoRowsWhereRestrictedAtEnd
    /\ \A i \in DOMAIN states : \A j \in DOMAIN states[i].lr_items :
          LET item == states[i].lr_items[j]
          IN /\ item_key(item)
                   = item_key(make_lr_item(prods, item.prod_index, AfterLastSymbol(item),
                                           NoLookahead, item.followed_by))
             /\ item.lookahead # NoLookahead <=> AfterLastSymbol(item) < item.offset

\* Shifting a gave a state whose own item is at the end of S -> a [lookahead
\* in {b}] with the restriction still on it, and analyzing it raised.
ShiftedItemRestrictedAtEnd ==
    /\ pc = "raised"
    /\ error = "ActiveLookahead"
    /\ analyzed.ref > 1
    /\ \E j \in DOMAIN analyzed.lr_items : RestrictedAtEnd(analyzed.lr_items[j])

\* ------------------------------------------------------------------------
\* State.closure as a least fixed point.

\* An item with its followed_by as a set, as LRItem tuples compare.
AsTuple(item) ==
    [prod_index |-> item.prod_index, offset |-> item.offset, lookahead |-> item.lookahead,
     followed_by |-> ToSet(item.followed_by)]

\* The items one step into a nonterminal from the items T.
StepIn(T) ==
    UNION { LET rhs == prods[t.prod_index + 1].rhs
                tail == ToSet(start_set_cache[t.prod_index + 1][t.offset + 2])
                F == IF EMPTY \in tail THEN (tail \ {EMPTY}) \cup t.followed_by ELSE tail
            IN IF t.offset < Len(rhs) /\ is_nt(grammar, rhs[t.offset + 1])
               THEN { [AsTuple(make_lr_item(prods, q - 1, 0, t.lookahead, <<>>))
                          EXCEPT !.followed_by = F] :
                        q \in { k \in DOMAIN prods :
                                  /\ prods[k].nt = rhs[t.offset + 1].n
                                  /\ \/ prods[k].rhs # <<>>
                                     \/ \E i \in DOMAIN ProdsOf(grammar, prods[k].nt) :
                                           ProdsOf(grammar, prods[k].nt)[i].body = <<>> } }
               ELSE {} : t \in T }

\* The least set that holds T and every step into a nonterminal from itself.
RECURSIVE LeastClosure(_)
LeastClosure(T) == IF StepIn(T) \subseteq T THEN T ELSE LeastClosure(T \cup StepIn(T))

Tuples(items) == { AsTuple(items[j]) : j \in DOMAIN items }

\* closure() of every state is the least closed superset of its items, keeps
\* the items first and unchanged, and no followed_by holds EMPTY.
C24_ClosureOfEveryState ==
    \A i \in DOMAIN states :
        LET c == closure(Context, states[i].lr_items)
        IN /\ Tuples(c) = LeastClosure(Tuples(states[i].lr_items))
           /\ SubSeq(c, 1, Len(states[i].lr_items)) = states[i].lr_items
           /\ \A j \in DOMAIN c : ~Has(c[j].followed_by, EMPTY)

\* State.analyze changes the items of a state only through State.update.
C24_Step ==
    \A i \in DOMAIN states :
        states'[i].lr_items # states[i].lr_items =>
            \E n \in DOMAIN updates' :
                /\ updates'[n].changed
                /\ updates'[n].before.id + 1 = i
                /\ states'[i].key = states[i].key

\* C24: State.closure() returns the least superset of the state's items that
\* holds, for every item in it before a nonterminal N and every flat
\* production q of N (an empty q only if N still has it in the lowered
\* grammar), make_lr_item(q, 0, item.lookahead, F) with F the start set of the
\* rest after N, without EMPTY and with the item's followed_by added iff
\* EMPTY was in it; EMPTY is in no followed_by; closure() leaves the items
\* of the state as they were.
C24_ClosureIsLeastFixedPoint == []C24_ClosureOfEveryState /\ [][C24_Step]_vars

\* A state whose closure steps in twice, once taking the followed_by of the
\* item stepped from and once only the start set of what follows.
C24_InheritedAndLocalFollowers ==
    \E i \in DOMAIN states :
        LET c == closure(Context, states[i].lr_items)
        IN /\ states[i].analyzed
           /\ Len(c) > Len(states[i].lr_items) + 1
           /\ \E j \in DOMAIN c :
                 /\ ~AtEnd(c[j]) /\ is_nt(grammar, NextSymbol(c[j]))
                 /\ Has(start_set_cache[c[j].prod_index + 1][c[j].offset + 2], EMPTY)
           /\ \E j \in DOMAIN c :
                 /\ ~AtEnd(c[j]) /\ is_nt(grammar, NextSymbol(c[j]))
                 /\ ~Has(start_set_cache[c[j].prod_index + 1][c[j].offset + 2], EMPTY)
           /\ \E j \in DOMAIN c : c[j].lookahead # NoLookahead

\* ------------------------------------------------------------------------
\* Successor items of State.analyze.

\* The restriction of the LookaheadRules rhs[from + 1 .. to].
RECURSIVE RulesBetween(_, _, _)
RulesBetween(rhs, from, to) ==
    IF from >= to THEN NoLookahead
    ELSE lookahead_intersect(rhs[from + 1], RulesBetween(rhs, from + 1, to))

\* The successor of `item` over its next symbol: one past the symbol, then
\* past the LookaheadRules that follow it, under their restriction alone.
SuccessorOf(item) ==
    LET rhs == Rhs(prods, item)
        stop == CHOOSE k \in item.offset + 1 .. Len(rhs) :
                   /\ \A m \in item.offset + 2 .. k : is_lookahead_rule(rhs[m])
                   /\ k < Len(rhs) => ~is_lookahead_rule(rhs[k + 1])
    IN [prod_index |-> item.prod_index, offset |-> stop,
        lookahead |-> RulesBetween(rhs, item.offset + 1, stop),
        followed_by |-> ToSet(item.followed_by)]

\* The items of the candidate state over sym, one per (prod_index, offset,
\* lookahead), each with the followed_by of all its sources.
Candidate(lr_items, sym) ==
    LET c == closure(Context, lr_items)
        succ == { SuccessorOf(c[j]) : j \in Steps(lr_items, sym) }
    IN { [s EXCEPT !.followed_by =
              UNION { x.followed_by :
                        x \in { y \in succ : <<y.prod_index, y.offset, y.lookahead>>
                                               = <<s.prod_index, s.offset, s.lookahead>> } }] :
         s \in succ }

\* An analysis that returned shifted exactly the terminals some closure item
\* stands before and admits, and every candidate it handed to
\* get_state_index was Candidate of its symbol: appended as a new state or
\* merged by State.update.
C25_Step ==
    (pc = "analyze" /\ pc' # "raised") =>
        LET ref == Head(todo)
            items == states[ref].lr_items
            c == closure(Context, items)
        IN /\ { t \in DOMAIN states'[ref].action_row : states'[ref].action_row[t] >= 0 }
                = { NextSymbol(c[j]).n :
                      j \in { k \in DOMAIN c :
                                /\ ~AtEnd(c[k])
                                /\ is_terminal(grammar, NextSymbol(c[k]))
                                /\ lookahead_contains(c[k].lookahead, NextSymbol(c[k]).n) } }
           /\ DOMAIN states'[ref].ctn_row
                = { NextSymbol(c[j]).n :
                      j \in { k \in DOMAIN c : ~AtEnd(c[k]) /\ is_nt(grammar, NextSymbol(c[k])) } }
           /\ \A sym \in SuccessorSymbols(items) :
                 \/ \E k \in Len(states) + 1 .. Len(states') :
                       /\ Tuples(states'[k].lr_items) = Candidate(items, sym)
                       /\ Target(states'[ref], sym) = k - 1
                 \/ \E n \in DOMAIN updates' :
                       /\ Tuples(updates'[n].new.lr_items) = Candidate(items, sym)
                       /\ Target(states'[ref], sym) = updates'[n].before.id

\* C25: a closure item contributes to the shift on terminal t only if t is
\* its next symbol and its lookahead restriction admits t; every shift or
\* goto successor item is at offset + 1, advanced past the LookaheadRules
\* there, with the followed_by of its source items and with no restriction
\* but that of the rules it was advanced past.
C25_SuccessorsFromAdmittingItems == [][C25_Step]_vars

\* The state just analyzed had a restricted item before a terminal the
\* restriction excludes and one before a terminal it admits: only the
\* second is shifted, to an item without restriction.
C25_ExcludedAndAdmitted ==
    /\ pc \in {"analyze", "emit"}
    /\ analyzed.ref # 0
    /\ LET c == closure(Context, analyzed.lr_items)
           row == states[analyzed.ref].action_row
       IN /\ \E j \in DOMAIN c :
                /\ c[j].lookahead # NoLookahead
                /\ ~AtEnd(c[j]) /\ is_terminal(grammar, NextSymbol(c[j]))
                /\ NextSymbol(c[j]).n \notin DOMAIN row
          /\ \E j \in DOMAIN c :
                /\ c[j].lookahead # NoLookahead
                /\ ~AtEnd(c[j]) /\ is_terminal(grammar, NextSymbol(c[j]))
                /\ NextSymbol(c[j]).n \in DOMAIN row
                /\ row[NextSymbol(c[j]).n] >= 0
                /\ \A k \in DOMAIN states[row[NextSymbol(c[j]).n] + 1].lr_items :
                      states[row[NextSymbol(c[j]).n] + 1].lr_items[k].lookahead = NoLookahead

\* ------------------------------------------------------------------------
\* The start set cache against seq_start.

\* make_start_set_cache was left by one of its assertions.
CacheAssertionFailed ==
    pc = "raised" /\ error = "AssertionError" /\ start # <<>> /\ follow = <<>>

\* make_start_set_cache has returned.
HasStartSetCache == pc \in {"follow_sets", "analyze_states", "analyze", "emit", "done"}

\* C26: the assertions inside make_start_set_cache never fail, and the cache
\* it returns has, for every flat production, len(rhs) + 1 entries, entry i
\* equal to seq_start of rhs[i:], the last one {EMPTY}.
C26_CacheMatchesSeqStart ==
    /\ ~CacheAssertionFailed
    /\ HasStartSetCache =>
          \A p \in DOMAIN prods :
              /\ Len(start_set_cache[p]) = Len(prods[p].rhs) + 1
              /\ start_set_cache[p][Len(prods[p].rhs) + 1] = <<EMPTY>>
              /\ \A i \in 0 .. Len(prods[p].rhs) :
                    ToSet(start_set_cache[p][i + 1])
                        = ToSet(seq_start(grammar, start,
                                          SubSeq(prods[p].rhs, i + 1, Len(prods[p].rhs))))

\* The right-to-left rule of suffix_start_list gives, for the body
\* S [lookahead not in {a}] b with S nullable, more than seq_start does.
SuffixRuleDisagrees ==
    /\ CacheAssertionFailed
    /\ \E p \in DOMAIN prods :
          \E i \in DOMAIN prods[p].rhs :
              /\ is_nt(grammar, prods[p].rhs[i])
              /\ Has(start[prods[p].rhs[i].n], EMPTY)
              /\ i < Len(prods[p].rhs) /\ is_lookahead_rule(prods[p].rhs[i + 1])
              /\ ToSet(start[prods[p].rhs[i].n])
                    \ ({EMPTY} \cup ToSet(seq_start(grammar, start,
                                   SubSeq(prods[p].rhs, i, Len(prods[p].rhs))))) # {}

\* ------------------------------------------------------------------------
\* The history of the items of a state.

\* analyze_states was left by an assertion.
AnalysisAssertionFailed == pc = "raised" /\ error = "AssertionError" /\ follow # <<>>

IsSuffix(s, t) == Len(s) <= Len(t) /\ s = SubSeq(t, Len(t) - Len(s) + 1, Len(t))

\* Every history among `items` is a suffix of the longest one.
HistoriesAgree(items) ==
    \E m \in DOMAIN items :
        \A j \in DOMAIN items :
            IsSuffix(item_history(prods, items[j]), item_history(prods, items[m]))

\* The item lists State.analyze hands to State(...) for the item set it
\* started from: one per symbol stepped over.
CandidateItemLists ==
    LET r == analyze_step_1(Context, closure(Context, analyzed.lr_items), 1,
                [shift_items |-> <<>>, ctn_items |-> <<>>, reduce_prods |-> <<>>,
                 err |-> "none"])
    IN { r.shift_items[k].items : k \in DOMAIN r.shift_items }
          \cup { r.ctn_items[k].items : k \in DOMAIN r.ctn_items }

\* C27: in every constructed state the history of each item (rhs[:offset]
\* without LookaheadRules) is a suffix of the longest history among the
\* state's items, and the assertion of assert_items_are_compatible never
\* fails.
C27_ItemsAreCompatible ==
    /\ ~AnalysisAssertionFailed
    /\ \A i \in DOMAIN states : HistoriesAgree(states[i].lr_items)

\* The assertion failed on a candidate whose histories do agree: one of its
\* items has a LookaheadRule before the cursor, so its offset is more than
\* the length of its history.
AssertionFailedOnAgreeingHistories ==
    /\ AnalysisAssertionFailed
    /\ \E items \in CandidateItemLists :
          /\ ~State(Context, items).ok
          /\ HistoriesAgree(items)
          /\ \E j \in DOMAIN items :
                items[j].offset > Len(item_history(prods, items[j]))

====
